---- MODULE Spec2Model ----
(***************************************************************************)
(* Model of UpdateStrapiService (src/src/services/update-strapi.ts, the    *)
(* TransactionBaseService revision, lines 1045-2985): the health monitor,  *)
(* the credential cache, the request executor with its axios-retry         *)
(* transport, the ignore/echo guard and the entity sync operations.        *)
(*                                                                         *)
(* An action is one suspension-free stretch of a handler: it starts when   *)
(* an awaited I/O completes and runs the code up to the next I/O.          *)
(* Times are milliseconds (Date.now()).                                    *)
(***************************************************************************)
EXTENDS Integers, FiniteSets, Sequences, TLC

VARIABLES
    now,                  \* Date.now()
    ticksLeft,            \* clock advances still to come
    isHealthy,            \* UpdateStrapiService.isHealthy (static)
    lastHealthCheckTime,  \* UpdateStrapiService.lastHealthCheckTime (static)
    strapiRetryDelay,     \* module-level let strapiRetryDelay; 0 is undefined
    userTokens,           \* this.userTokens: email -> credential or NoCred
    tokSeq,               \* tokens handed out by the remote login endpoint
    redis,                \* ignore keys `${id}_ignore_strapi`: id -> expiry (ms), 0 absent
    task,                 \* the logical tasks, one change event each
    opsLeft,              \* change events still to come
    markersLeft,          \* ignore keys still to be written
    rateBudget,           \* 429 answers the remote service may still give
    strapi,               \* the remote collections: product id -> entries with that
                          \* medusa_id, email -> users with that email
    syncInProgress        \* the container's "syncInProgress": <<>> not registered,
                          \* <<b>> registered with the value b

vars == <<now, ticksLeft, isHealthy, lastHealthCheckTime, strapiRetryDelay,
          userTokens, tokSeq, redis, task, opsLeft, markersLeft, rateBudget,
          strapi, syncInProgress>>

----------------------------------------------------------------------------
(* Program constants *)

HealthInterval == 120000
DefaultRetryDelay == 180000
PollSleep == 1000
IGNORE_THRESHOLD == 3
Retries == 100
MsPerSec == 1000
ResetMargin == 2
DefaultResetAhead == 120000

(* Bounds of the model *)

StartTime == 1000500
MaxTicks == 1
MaxOps == 1
MaxConcTicks == 2
MaxCredOps == 2
MaxCredTicks == 2
MaxMarkers == 1
MaxRateLimited == 1
MaxRetryAfter == 1
MaxResetAhead == 1
MaxUnhintedClock == 1500000
MaxDepth == 1
MaxBootTicks == 2
MaxMirrorOps == 3
MaxLifeOps == 3
MaxUserOps == 3
MaxUserTicks == 1
MaxStartOps == 1
MaxStartTicks == 1
MaxAdminOps == 2
MaxAdminTicks == 2
MaxSeedOps == 5

----------------------------------------------------------------------------
(* Finite input domains *)

Tasks == {1, 2}
Emails == {"default@medusa"}
Ids == {"e1", "e2"}
OpIds == {"e1"}
Kinds == {"product", "variant", "region", "product-type", "metafield"}
FieldChoices == {{"title"}, {"name"}, {"handle"}}
KeyChoices == {{}, {"title"}}
EngineTicks == {PollSleep, IGNORE_THRESHOLD * MsPerSec}

NoToken == 0
NoCred == [token |-> NoToken, time |-> 0]

(* Outcomes of one transmission: a 2xx answer, the error statuses 401, 404, *)
(* 429 and 500, and a failure without any response.                        *)
Ok == "ok"
Unauthorized == "unauthorized"
NotFound == "notfound"
TooMany == "toomany"
ServerError == "error"
NetworkError == "network"

(* A response header is <<>> when absent and <<n>> when it carries n. *)
RetryAfterChoices == {<<>>} \cup {<<n>> : n \in 0..MaxRetryAfter}

----------------------------------------------------------------------------
(* The sync operations of the service and what each of them does, in the   *)
(* order of its code.                                                      *)

Ops ==
    {[verb |-> "create", kind |-> k] : k \in Kinds}
    \cup {[verb |-> "update", kind |-> k] :
             k \in {"product", "variant", "region", "metafield"}}
    \cup {[verb |-> "delete", kind |-> k] :
             k \in {"product", "variant", "region", "product-type"}}

\* The resource type of the entries the operation writes.
WriteType(kind) ==
    CASE kind = "product" -> "products"
      [] kind = "variant" -> "product-variants"
      [] kind = "region" -> "regions"
      [] kind = "product-type" -> "product-types"
      [] kind = "metafield" -> "product-metafields"

\* The resource type whose existence the operation probes first ("none":
\* the operation has no probe).
ProbeType(verb, kind) ==
    CASE verb = "update" /\ kind = "variant" -> "none"
      [] verb = "update" /\ kind = "metafield" -> "metafields"
      [] verb = "delete" /\ kind = "region" -> "product-variants"
      [] OTHER -> WriteType(kind)

\* What the operation does when getType rejects: createProductInStrapi awaits
\* it bare, createEntityInStrapi drops checkType's answer, the others answer
\* {status: 400}.
OnProbeThrow(verb, kind) ==
    CASE verb = "create" /\ kind = "product" -> "throw"
      [] verb = "create" /\ kind = "product-type" -> "continue"
      [] OTHER -> "s400"

\* const updateFields = [...] of the three filtered updates.
\* (UpdateFields_NoTitle: the faulty variant whose lists lack "title", which
\* C26 is checked to tell apart.)
UpdateFields_NoTitle(kind) ==
    CASE kind = "product" -> {"variants", "options", "tags", "subtitle"}
      [] kind = "region" -> {"name", "currency_code", "countries"}
      [] kind = "variant" -> {"prices", "sku", "material", "options"}
      [] OTHER -> {}
UpdateFields(kind) ==
    CASE kind = "product" ->
            {"variants", "options", "tags", "title", "subtitle", "type",
             "type_id", "collection", "collection_id", "thumbnail"}
      [] kind = "region" ->
            {"name", "currency_code", "countries", "payment_providers",
             "fulfillment_providers"}
      [] kind = "variant" ->
            {"title", "prices", "sku", "material", "weight", "length",
             "height", "origin_country", "options"}
      [] OTHER -> {}

\* verifyDataContainsFields(data, updateFields): data.fields first, then the
\* keys of data itself ("id", "fields" when present, and the other keys).
\* (DataKeys_IdOnly: the faulty variant that does not see the other keys,
\* which C27 is checked to tell apart.)
DataKeys_IdOnly(hasFields, keys) == {"id"}
DataKeys(hasFields, keys) ==
    {"id"} \cup (IF hasFields THEN {"fields"} ELSE {}) \cup keys

\* verifyDataContainsFields_AnyFields is the faulty variant that takes any
\* fields list for a match; C6 is checked to tell the two apart.
verifyDataContainsFields_AnyFields(hasFields, fields, keys, updateFields) ==
    \/ hasFields
    \/ DataKeys(hasFields, keys) \cap updateFields # {}
verifyDataContainsFields(hasFields, fields, keys, updateFields) ==
    \/ hasFields /\ fields \cap updateFields # {}
    \/ DataKeys(hasFields, keys) \cap updateFields # {}

\* The field-relevance guard of an operation: TRUE when the update goes on.
PassesFilter(verb, kind, hasFields, fields, keys) ==
    CASE verb = "update" /\ kind \in {"product", "region"} ->
            verifyDataContainsFields(hasFields, fields, keys, UpdateFields(kind))
      [] verb = "update" /\ kind = "variant" ->
            \/ ~hasFields
            \/ fields \cap UpdateFields(kind) # {}
            \/ verifyDataContainsFields(hasFields, fields, keys, UpdateFields(kind))
      [] OTHER -> TRUE

\* The operations that call shouldIgnore_(data.id, "strapi").
\* (HasIgnore_UpdatesOnly: the faulty variant without the deletes, which C8
\* is checked to tell apart.)
HasIgnore_UpdatesOnly(verb, kind) ==
    verb = "update" /\ kind \in {"product", "region", "variant"}
HasIgnore(verb, kind) ==
    \/ verb = "update" /\ kind \in {"product", "region", "variant"}
    \/ verb = "delete"

\* The operations that retrieve the canonical entity from the domain service.
HasFetch(verb, kind) == verb \in {"create", "update"}

\* A rejected retrieve: updateRegionInStrapi and updateProductVariantInStrapi
\* catch it and answer {status: 400}, the others let it through.
OnFetchThrow(verb, kind) ==
    IF verb = "update" /\ kind \in {"region", "variant"} THEN "s400" ELSE "throw"

\* A retrieve that resolves to nothing.
OnFetchNull(verb, kind) ==
    CASE verb = "create" /\ kind \in {"product", "variant", "product-type"} -> "undef"
      [] verb = "create" /\ kind = "region" -> "write"
      [] kind = "metafield" -> "throw"
      [] OTHER -> "s400"

----------------------------------------------------------------------------
(* A logical task: the change event it serves, where it is suspended, its  *)
(* locals, and what it has issued so far (the n* and c* fields).           *)

\* The Error that _axiosError throws is told by the four things its message
\* is made of; an absent id is the empty string, as in the message.
Unregistered == <<>>
NoId == ""

\* The remote collections after construction: no product is mirrored, the
\* users are registered.
NoEntries == [i \in Ids \cup Emails |-> IF i \in Emails THEN 1 ELSE 0]
NoError == [thrown |-> FALSE, method |-> "", type |-> "", id |-> NoId,
            message |-> ""]
NotSent == [returned |-> FALSE, result |-> "none", error |-> NoError]

IdleTask ==
    [pc |-> "idle", verb |-> "none", kind |-> "none", id |-> "none",
     hasFields |-> FALSE, fields |-> {}, keys |-> {}, email |-> "none",
     phase |-> "none",      \* which strapiSendDataLayer call: "probe" or "write"
     stage |-> "none",      \* whose waitForHealth: "login" or "send"
     req |-> "none",        \* the request axios holds: "head", "login" or "send"
     token |-> NoToken,     \* userCreds.token
     retryCount |-> 0,      \* axios-retry's count for the request held
     wake |-> 0,            \* end of the current sleep
     at |-> 0,              \* when the last retried answer was received
     probedAt |-> <<>>,     \* when the task's last HEAD /_health went out
     creds |-> "none",      \* how the last strapiLoginSendDatalayer login settled
     hint |-> <<>>,         \* its x-retry-after header
     gaveUp |-> <<>>,       \* <<n>>: a 429 reached the caller after n retries
     sent |-> NotSent,      \* how the last executeStrapiSend ended
     fetched |-> "none",    \* what the domain service's retrieve gave
     given |-> <<>>,        \* <<e>>: the entity as retrieve resolved it
     entity |-> <<>>,       \* <<e>>: that object as it is now
     payload |-> <<>>,      \* <<p>>: dataToSend of the write
     bstep |-> "none",      \* the step of the bootstrap sequence
     adminToken |-> NoToken,        \* strapiSuperAdminAuthToken
     lastAdmin |-> <<>>,    \* <<ms>>: lastAdminLoginAttemptTime
     syncToken |-> NoToken, \* the token executeSync was called with
     startupError |-> FALSE,        \* "strapi startup error" was thrown
     blog |-> <<>>,         \* what the bootstrap has done, in order
     answer |-> "none",     \* outcome of the last transmission answered
     status |-> "none",     \* outcome of the last entry request answered
     probe |-> "none",      \* outcome of the type-existence probe
     ign |-> "none",        \* what shouldIgnore_ answered: "live" or "absent"
     gate |-> "none",       \* what waitForHealth last saw
     res |-> "none",        \* what the operation returned
     call |-> 0,            \* strapiSendDataLayer calls begun
     nHead |-> 0, nLogin |-> 0, nProbe |-> 0, nWrite |-> 0, nFetch |-> 0,
     nIgnore |-> 0,
     cLogin |-> 0, cSend |-> 0,
     inst |-> "this"]       \* the instance it runs on: "this" or a "clone"

DataChoices(o) ==
    IF o.verb = "update" /\ o.kind # "metafield"
    THEN {[hasFields |-> FALSE, fields |-> {}, keys |-> k] : k \in KeyChoices}
         \cup {[hasFields |-> TRUE, fields |-> f, keys |-> k] :
                 f \in FieldChoices, k \in KeyChoices}
    ELSE {[hasFields |-> FALSE, fields |-> {}, keys |-> {}]}

----------------------------------------------------------------------------
(* Health monitor *)

\* checkStrapiHealth: intervalElapsed
\* (IntervalElapsed_Inclusive: the off-by-one variant, which C3 is checked
\* to tell apart.)
\* (IntervalElapsed_Never: the faulty variant that trusts the cache for
\* ever, which C29 is checked to tell apart.)
IntervalElapsed_Never(currentTime, last) == FALSE
IntervalElapsed_Inclusive(currentTime, last) == currentTime - last >= HealthInterval
IntervalElapsed(currentTime, last) == currentTime - last > HealthInterval

\* The three ways a request leaves the process.
IssueHead(r) ==
    [r EXCEPT !.pc = "head", !.req = "head", !.retryCount = 0, !.nHead = @ + 1,
              !.probedAt = <<now>>]

IssueLogin(r) ==
    [r EXCEPT !.pc = "login", !.req = "login", !.retryCount = 0,
              !.nLogin = @ + 1, !.cLogin = @ + 1]

IssueSend(r) ==
    [r EXCEPT !.pc = "send", !.req = "send", !.retryCount = 0,
              !.status = "none", !.cSend = @ + 1,
              !.nProbe = IF r.phase = "probe" THEN @ + 1 ELSE @,
              !.nWrite = IF r.phase = "write" THEN @ + 1 ELSE @]

\* A request of the bootstrap sequence is transmitted: r.stage names it.
IssueBoot(r) ==
    [r EXCEPT !.pc = r.stage, !.req = r.stage, !.retryCount = 0,
              !.blog = Append(@, r.stage)]

\* What follows a waitForHealth that has seen true.
Proceed(r) ==
    CASE r.stage = "login" -> IssueLogin([r EXCEPT !.gate = "healthy"])
      [] r.stage = "send" -> IssueSend([r EXCEPT !.gate = "healthy"])
      [] OTHER -> IssueBoot([r EXCEPT !.gate = "healthy"])

\* waitForHealth saw false: sleep(1000), then check again.
\* (HealthSleep_GiveUp: the faulty variant that goes on after the first
\* check, which C4 is checked to tell apart.)
HealthSleep_GiveUp(r) == Proceed(r)
HealthSleep(r) ==
    [r EXCEPT !.pc = "hsleep", !.wake = now + PollSleep, !.gate = "unhealthy"]

\* One turn of waitForHealth's loop: checkStrapiHealth, then break or sleep.
\* (WaitForHealth_OneShot: the faulty variant that trusts a fresh cache
\* whatever it says, which C5 is checked to tell apart.)
WaitForHealth_OneShot(r) ==
    IF IntervalElapsed(now, lastHealthCheckTime) THEN IssueHead(r) ELSE Proceed(r)
WaitForHealth(r) ==
    IF IntervalElapsed(now, lastHealthCheckTime)
    THEN IssueHead(r)
    ELSE IF isHealthy THEN Proceed(r) ELSE HealthSleep(r)

\* waitForHealth right after executeStrapiHealthCheck has resolved true in
\* the same turn: the check is fresh and says healthy.
WaitForHealthFresh(r) == Proceed(r)

----------------------------------------------------------------------------
(* ID remapping. A JavaScript object is a function from its keys to its    *)
(* values, an array an object whose keys are its indices; a value is a     *)
(* primitive or an object.                                                 *)

EmptyNode == [k \in {} |-> ""]
Prim(v) == [prim |-> TRUE, v |-> v, o |-> EmptyNode]
Obj(n) == [prim |-> FALSE, v |-> "", o |-> n]

\* The entities of the domain service, nested up to MaxDepth relations deep:
\* scalar columns id and medusa_id, one relation that holds an entity or a
\* list of one.
ScalarKeys == {"id", "medusa_id"}
RelationKeys == {"options"}
Scalars == UNION {[ks -> {Prim(v) : v \in Ids}] : ks \in SUBSET ScalarKeys}

RECURSIVE Nodes(_)
Nodes(d) ==
    IF d = 0 THEN Scalars
    ELSE Scalars \cup
         {l @@ (rk :> Obj(c)) :
            l \in Scalars, rk \in RelationKeys,
            c \in Nodes(d - 1) \cup {"0" :> Obj(n) : n \in Nodes(d - 1)}}

\* What retrieve(id) may resolve to.
Entities(id) ==
    {n \in Nodes(MaxDepth) : "id" \in DOMAIN n /\ n["id"] = Prim(id)}

\* The entity without relations.
Plain(id) == "id" :> Prim(id)

\* translateIdsToMedusaIds(dataToSend): every key whose value is an object
\* is descended into; a key "id" with another value is renamed.
\* (translateIdsToMedusaIds_Shallow: the faulty variant that does not
\* descend, which C17 is checked to tell apart.)
RECURSIVE translateIdsToMedusaIds(_)
translateIdsToMedusaIds_Shallow(dataToSend) ==
    LET renames == "id" \in DOMAIN dataToSend /\ dataToSend["id"].prim
        keys == IF renames
                THEN (DOMAIN dataToSend \ {"id"}) \cup {"medusa_id"}
                ELSE DOMAIN dataToSend
    IN  [key \in keys |->
            IF renames /\ key = "medusa_id" THEN dataToSend["id"]
            ELSE dataToSend[key]]
translateIdsToMedusaIds(dataToSend) ==
    LET renames == "id" \in DOMAIN dataToSend /\ dataToSend["id"].prim
        keys == IF renames
                THEN (DOMAIN dataToSend \ {"id"}) \cup {"medusa_id"}
                ELSE DOMAIN dataToSend
    IN  [key \in keys |->
            IF renames /\ key = "medusa_id" THEN dataToSend["id"]
            ELSE IF dataToSend[key].prim THEN dataToSend[key]
            ELSE Obj(translateIdsToMedusaIds(dataToSend[key].o))]

\* _.cloneDeep(data): a copy that shares nothing with data.
cloneDeep(data) == [value |-> data, shared |-> FALSE]

\* strapiSendDataLayer between the login and executeStrapiSend: dataToSend is
\* built from data. The caller's object is what it was unless dataToSend
\* shares its nodes.
BuildPayload(r) ==
    IF r.phase # "write" \/ r.entity = <<>> THEN r
    ELSE LET data == r.entity[1]
             copy == cloneDeep(data)
             translated == translateIdsToMedusaIds(copy.value)
             dataToSend ==
                 [key \in (DOMAIN translated \ {"id"}) \cup {"medusa_id"} |->
                     IF key = "medusa_id" THEN data["id"] ELSE translated[key]]
         IN  [r EXCEPT !.payload = <<dataToSend>>,
                       !.entity = IF copy.shared THEN <<dataToSend>> ELSE @]

----------------------------------------------------------------------------
(* Credential cache *)

Seconds(ms) == ms \div MsPerSec

\* strapiLoginSendDatalayer: the cached credential is returned.
\* (UsesCached_Inclusive: the off-by-one variant, which C1 is checked to
\* tell apart.)
UsesCached_Inclusive(cred, delay) ==
    /\ cred # NoCred
    /\ Seconds(now) - Seconds(cred.time) <=
          (IF delay = 0 THEN DefaultRetryDelay ELSE delay)
UsesCached(cred, delay) ==
    /\ cred # NoCred
    /\ Seconds(now) - Seconds(cred.time) <
          (IF delay = 0 THEN DefaultRetryDelay ELSE delay)

\* strapiRetryDelay after strapiLoginSendDatalayer's cache lookup.
DelayAfterLookup(cred) ==
    IF cred # NoCred /\ strapiRetryDelay = 0
    THEN DefaultRetryDelay
    ELSE strapiRetryDelay

\* executeStrapiSend and executeLoginAsStrapiUser both start with
\* waitForHealth; strapiSendDataLayer starts with strapiLoginSendDatalayer.
BeginDataLayer(r, phase) ==
    LET r1 == [r EXCEPT !.phase = phase, !.call = @ + 1, !.cLogin = 0,
                        !.cSend = 0, !.status = "none"]
        cred == userTokens[r.email]
    IN  IF UsesCached(cred, strapiRetryDelay)
        THEN WaitForHealth(
                 BuildPayload([r1 EXCEPT !.stage = "send", !.token = cred.token]))
        ELSE WaitForHealth([r1 EXCEPT !.stage = "login", !.token = NoToken])

\* this.logger writes a line.
Log(r, event) == [r EXCEPT !.blog = Append(@, event)]

Return(r, value) ==
    [r EXCEPT !.pc = "done", !.res = value, !.req = "none", !.wake = 0]

----------------------------------------------------------------------------
(* Entity sync engine: the code between two suspensions *)

\* The canonical entity is asked of the domain service.
Fetch(r) == [r EXCEPT !.pc = "retrieve", !.nFetch = @ + 1, !.req = "none"]

\* shouldIgnore_(data.id, "strapi") is asked of redis.
AskIgnore(r) == [r EXCEPT !.pc = "redis", !.nIgnore = @ + 1, !.req = "none"]

\* getType resolved: its value, {status: 400} included, is truthy, so hasType
\* is true. Then the field filter, the echo check, the fetch.
AfterProbe(r) ==
    IF ~PassesFilter(r.verb, r.kind, r.hasFields, r.fields, r.keys)
    THEN Return(r, "s400")
    ELSE IF HasIgnore(r.verb, r.kind) THEN AskIgnore(r) ELSE Fetch(r)

\* getType rejected (the login inside it threw).
ProbeThrown(r) ==
    CASE OnProbeThrow(r.verb, r.kind) = "throw" -> Return(r, "throw")
      [] OnProbeThrow(r.verb, r.kind) = "continue" -> Fetch(r)
      [] OTHER -> Return(r, "s400")

\* deleteMedusaUserFromStrapi once strapiSendDataLayer has resolved with the
\* user or with {status: 400}: the token is read from the cache (a TypeError
\* if there is none, which deleteDefaultMedusaUser catches and logs) and the
\* DELETE goes to executeStrapiSend.
AfterFetchedUser(r) ==
    IF userTokens[r.email] = NoCred
    THEN Return(Log(r, "delete-user-failed"), "undef")
    ELSE WaitForHealth([r EXCEPT !.phase = "userdel", !.stage = "send",
                                 !.token = userTokens[r.email].token])

\* strapiSendDataLayer resolved with value ("ok": the uniform record of a 2xx
\* answer, "s400": {status: 400}); or strapiLoginSendDatalayer resolved to
\* undefined in loginAsDefaultMedusaUser.
DataLayerReturn(r, value) ==
    CASE r.phase = "probe" -> AfterProbe(r)
      [] r.phase = "me" -> AfterFetchedUser(r)
      [] r.phase = "login-only" -> Return(r, "undef")
      [] OTHER -> Return(r, value)

\* strapiSendDataLayer rejected; processStrapiEntry turns that into
\* {status: 400} for the writes, deleteDefaultMedusaUser and
\* loginAsDefaultMedusaUser catch and log it.
DataLayerThrow(r) ==
    CASE r.phase = "probe" -> ProbeThrown(r)
      [] r.phase = "me" -> Return(Log(r, "delete-user-failed"), "undef")
      [] r.phase = "login-only" -> Return(Log(r, "login-failed"), "undef")
      [] OTHER -> Return(r, "s400")

\* The task after an action, with the module-level strapiRetryDelay that
\* strapiLoginSendDatalayer may have initialised on the way.
Commit(t, r, began) ==
    /\ task' = [task EXCEPT ![t] = r]
    /\ strapiRetryDelay' =
          IF began THEN DelayAfterLookup(userTokens[r.email]) ELSE strapiRetryDelay

\* A change event arrives and its handler runs up to its first suspension.
StartOp(t, o, id, d, e) ==
    /\ task[t].pc = "idle"
    /\ opsLeft > 0
    /\ opsLeft' = opsLeft - 1
    /\ LET r0 == [IdleTask EXCEPT !.verb = o.verb, !.kind = o.kind, !.id = id,
                                  !.hasFields = d.hasFields, !.fields = d.fields,
                                  !.keys = d.keys, !.email = e]
       IN  IF ProbeType(o.verb, o.kind) = "none"
           THEN Commit(t, IF PassesFilter(o.verb, o.kind, d.hasFields, d.fields, d.keys)
                          THEN AskIgnore(r0) ELSE Return(r0, "s400"), FALSE)
           ELSE Commit(t, BeginDataLayer(r0, "probe"), TRUE)
    /\ UNCHANGED <<syncInProgress, strapi, now, ticksLeft, isHealthy, lastHealthCheckTime, userTokens,
                   tokSeq, redis, markersLeft, rateBudget>>

\* The handler's promise has settled with task[t].res; the task is free again.
Complete(t) ==
    /\ task[t].pc = "done"
    /\ task' = [task EXCEPT ![t] = IdleTask]
    /\ UNCHANGED <<syncInProgress, strapi, now, ticksLeft, isHealthy, lastHealthCheckTime, strapiRetryDelay,
                   userTokens, tokSeq, redis, opsLeft, markersLeft, rateBudget>>

\* redis answers shouldIgnore_: the key is there until its EX time is over.
\* (MarkerLive_NoExpiry: the faulty variant without the EX time, which C7
\* is checked to tell apart.)
MarkerLive_NoExpiry(id) == redis[id] # 0
MarkerLive(id) == now < redis[id]

IgnoreRespond(t) ==
    LET r == task[t] IN
    /\ r.pc = "redis"
    /\ IF MarkerLive(r.id)
       THEN Commit(t, Return([r EXCEPT !.ign = "live"], "s400"), FALSE)
       ELSE IF HasFetch(r.verb, r.kind)
            THEN Commit(t, Fetch([r EXCEPT !.ign = "absent"]), FALSE)
            ELSE Commit(t, BeginDataLayer([r EXCEPT !.ign = "absent"], "write"), TRUE)
    /\ UNCHANGED <<syncInProgress, strapi, now, ticksLeft, isHealthy, lastHealthCheckTime, userTokens,
                   tokSeq, redis, opsLeft, markersLeft, rateBudget>>

\* The domain service answers retrieve: the entity, nothing, or an error.
RetrieveRespond(t, outcome, entity) ==
    LET r == [task[t] EXCEPT !.fetched = outcome,
                             !.given = IF outcome = "entity" THEN <<entity>>
                                       ELSE @,
                             !.entity = IF outcome = "entity" THEN <<entity>>
                                        ELSE @]
        how == CASE outcome = "entity" -> "write"
                 [] outcome = "null" -> OnFetchNull(r.verb, r.kind)
                 [] OTHER -> OnFetchThrow(r.verb, r.kind)
    IN
    /\ r.pc = "retrieve"
    /\ IF how = "write"
       THEN Commit(t, BeginDataLayer(r, "write"), TRUE)
       ELSE Commit(t, Return(r, how), FALSE)
    /\ UNCHANGED <<syncInProgress, strapi, now, ticksLeft, isHealthy, lastHealthCheckTime, userTokens,
                   tokSeq, redis, opsLeft, markersLeft, rateBudget>>

----------------------------------------------------------------------------
(* Transport: axios with axios-retry, and the handlers of its answers *)

Abs(x) == IF x < 0 THEN 0 - x ELSE x

\* The requests of the bootstrap sequence: the constructor's HEAD /_health,
\* POST /admin/login, POST /admin/register-admin, POST create-medusa-user,
\* POST /api/auth/local, POST synchronise-medusa-tables; and the request of
\* a later executeStrapiAdminSend.
BootRequests == {"bhead", "alogin", "areg", "ureg", "ulogin", "sync", "asend"}

\* axiosRetry's retryDelay(retryCount, error), in ms; it is also stored in
\* strapiRetryDelay. retryAfter is the x-retry-after header, reset the
\* x-ratelimit-reset header (epoch seconds).
\* (RetryDelay_Unscaled: the faulty variant that takes the header for
\* milliseconds, which C11 is checked to tell apart.)
RetryDelay_Unscaled(retryCount, retryAfter, reset) ==
    IF retryAfter = <<>>
    THEN LET rateLimitResetTime ==
                 IF reset = <<>> THEN now + DefaultResetAhead ELSE reset[1]
         IN  (Abs(rateLimitResetTime - Seconds(now)) + ResetMargin) * MsPerSec
    ELSE retryCount * retryAfter[1]
RetryDelay(retryCount, retryAfter, reset) ==
    IF retryAfter = <<>>
    THEN LET rateLimitResetTime ==
                 IF reset = <<>> THEN now + DefaultResetAhead ELSE reset[1]
         IN  (Abs(rateLimitResetTime - Seconds(now)) + ResetMargin) * MsPerSec
    ELSE retryCount * MsPerSec * retryAfter[1]

\* axiosRetry's retryCondition together with its retries ceiling.
\* (ShouldRetry_AnyError: the faulty variant that retries every error,
\* which C10 is checked to tell apart; ShouldRetry_Never: the one without
\* retries, for C12.)
ShouldRetry_Never(outcome, retryCount) == FALSE
ShouldRetry_AnyError(outcome, retryCount) == retryCount < Retries
ShouldRetry(outcome, retryCount) == outcome = TooMany /\ retryCount < Retries

InFlight(r) == r.pc \in {"head", "login", "send"} \cup BootRequests

ResetChoices == {<<>>} \cup {<<Seconds(now) + k>> : k \in 1..MaxResetAhead}

\* A transmission is answered with an error that axios-retry retries: the
\* delay is computed, stored, and slept.
RetryRespond(t, outcome, retryAfter, reset) ==
    LET r == task[t] IN
    /\ InFlight(r)
    /\ ShouldRetry(outcome, r.retryCount)
    /\ outcome = TooMany => rateBudget > 0
    /\ retryAfter = <<>> /\ reset = <<>> => now <= MaxUnhintedClock
    /\ rateBudget' = IF outcome = TooMany THEN rateBudget - 1 ELSE rateBudget
    /\ strapiRetryDelay' = RetryDelay(r.retryCount + 1, retryAfter, reset)
    /\ task' = [task EXCEPT ![t] =
                  [r EXCEPT !.pc = "backoff", !.retryCount = @ + 1,
                            !.answer = outcome,
                            !.at = now, !.hint = retryAfter,
                            !.wake = now + strapiRetryDelay',
                            !.status = IF r.req = "send" THEN outcome ELSE @]]
    /\ UNCHANGED <<syncInProgress, strapi, now, ticksLeft, isHealthy, lastHealthCheckTime, userTokens,
                   tokSeq, redis, opsLeft, markersLeft>>

\* The delay is over: axios-retry transmits the same request again.
BackoffWake(t) ==
    LET r == task[t] IN
    /\ r.pc = "backoff"
    /\ now >= r.wake
    /\ task' = [task EXCEPT ![t] = [r EXCEPT !.pc = r.req]]
    /\ UNCHANGED <<syncInProgress, strapi, now, ticksLeft, isHealthy, lastHealthCheckTime, strapiRetryDelay,
                   userTokens, tokSeq, redis, opsLeft, markersLeft, rateBudget>>

\* What the remote service may answer finally (not retried) to the request
\* held by r: any outcome that axios-retry does not retry.
Surfaces(r, outcome) ==
    /\ ~ShouldRetry(outcome, r.retryCount)
    /\ outcome = TooMany => rateBudget > 0

\* The final answer to the request held by r reaches the code that awaits it.
Answer(r, outcome) ==
    [r EXCEPT !.answer = outcome,
              !.gaveUp = IF outcome = TooMany THEN <<r.retryCount>> ELSE @]

\* executeStrapiHealthCheck: axios.head resolved (a 2xx answer).
HeadOk(t) ==
    LET r == task[t] IN
    /\ r.pc = "head"
    /\ lastHealthCheckTime' = now
    /\ isHealthy' = TRUE
    /\ task' = [task EXCEPT ![t] = Proceed([r EXCEPT !.answer = Ok])]
    /\ UNCHANGED <<syncInProgress, strapi, now, ticksLeft, strapiRetryDelay, userTokens, tokSeq, redis,
                   opsLeft, markersLeft, rateBudget>>

\* executeStrapiHealthCheck: axios.head rejected, the catch block runs.
HeadFail(t, outcome) ==
    LET r == task[t] IN
    /\ r.pc = "head"
    /\ outcome # Ok
    /\ Surfaces(r, outcome)
    /\ isHealthy' = FALSE
    /\ rateBudget' = IF outcome = TooMany THEN rateBudget - 1 ELSE rateBudget
    /\ task' = [task EXCEPT ![t] = HealthSleep(Answer(r, outcome))]
    /\ UNCHANGED <<syncInProgress, strapi, now, ticksLeft, lastHealthCheckTime, strapiRetryDelay, userTokens,
                   tokSeq, redis, opsLeft, markersLeft>>

\* waitForHealth: the sleep is over, checkStrapiHealth again.
HealthWake(t) ==
    LET r == task[t] IN
    /\ r.pc = "hsleep"
    /\ now >= r.wake
    /\ task' = [task EXCEPT ![t] = WaitForHealth(r)]
    /\ UNCHANGED <<syncInProgress, strapi, now, ticksLeft, isHealthy, lastHealthCheckTime, strapiRetryDelay,
                   userTokens, tokSeq, redis, opsLeft, markersLeft, rateBudget>>

\* this.userTokens[email] = {token, time, user}: the entry is a new object,
\* assigned in one statement.
\* (StoreCredential_Merges: the faulty variant that writes into the entry
\* that is there and keeps its time, which C32 is checked to tell apart.)
StoreCredential_Merges(lastRetrived, jwt, time) ==
    [token |-> jwt,
     time |-> IF lastRetrived = NoCred THEN time ELSE lastRetrived.time]
StoreCredential(lastRetrived, jwt, time) == [token |-> jwt, time |-> time]

\* strapiLoginSendDatalayer: the login answered with a jwt; it is cached and
\* strapiSendDataLayer goes on to executeStrapiSend.
LoginOk(t) ==
    LET r == task[t]
        cred == StoreCredential(userTokens[r.email], tokSeq + 1, now)
    IN
    /\ r.pc = "login"
    /\ tokSeq' = tokSeq + 1
    /\ userTokens' = [userTokens EXCEPT ![r.email] = cred]
    /\ task' = [task EXCEPT ![t] =
                  LET r1 == [r EXCEPT !.stage = "send", !.token = cred.token,
                                      !.creds = "returned", !.answer = Ok]
                  IN  IF r.phase = "login-only"
                      THEN Return(r1, "creds")
                      ELSE WaitForHealth(BuildPayload(r1))]
    /\ UNCHANGED <<syncInProgress, strapi, now, ticksLeft, isHealthy, lastHealthCheckTime, strapiRetryDelay,
                   redis, opsLeft, markersLeft, rateBudget>>

\* The login answered 2xx without a jwt: strapiLoginSendDatalayer resolves to
\* undefined and userCreds.token throws inside strapiSendDataLayer's try.
LoginNoJwt(t) ==
    LET r == task[t] IN
    /\ r.pc = "login"
    /\ task' = [task EXCEPT ![t] =
                  DataLayerReturn([r EXCEPT !.answer = Ok, !.creds = "undefined"],
                                  "s400")]
    /\ UNCHANGED <<syncInProgress, strapi, now, ticksLeft, isHealthy, lastHealthCheckTime, strapiRetryDelay,
                   userTokens, tokSeq, redis, opsLeft, markersLeft, rateBudget>>

\* executeLoginAsStrapiUser: the login was rejected, an Error is thrown.
LoginFail(t, outcome) ==
    LET r == task[t] IN
    /\ r.pc = "login"
    /\ outcome # Ok
    /\ Surfaces(r, outcome)
    /\ rateBudget' = IF outcome = TooMany THEN rateBudget - 1 ELSE rateBudget
    /\ task' = [task EXCEPT ![t] =
                  DataLayerThrow(Answer([r EXCEPT !.creds = "thrown"], outcome))]
    /\ UNCHANGED <<syncInProgress, strapi, now, ticksLeft, isHealthy, lastHealthCheckTime, strapiRetryDelay,
                   userTokens, tokSeq, redis, opsLeft, markersLeft>>

\* The method, type and id that the operation hands to executeStrapiSend:
\* getType passes no id, nor do createProductInStrapi and
\* createEntityInStrapi; deleteMedusaUserFromStrapi gets users/me and
\* deletes the user by the id that came back.
\* (Method_AlwaysPost: the faulty variant whose writes are all POSTs, which
\* C22 is checked to tell apart.)
Method_AlwaysPost(r) == IF r.phase \in {"probe", "me"} THEN "get" ELSE "post"
Method(r) ==
    IF r.phase \in {"probe", "me"} THEN "get"
    ELSE CASE r.verb = "create" -> "post"
           [] r.verb = "update" -> "put"
           [] r.verb \in {"delete", "delete-user"} -> "delete"

SendType(r) ==
    CASE r.phase = "probe" -> ProbeType(r.verb, r.kind)
      [] r.phase \in {"me", "userdel"} -> "users"
      [] OTHER -> WriteType(r.kind)

SendId(r) ==
    CASE r.phase = "me" -> "me"
      [] r.phase = "userdel" -> IF r.probe = Ok THEN r.email ELSE NoId
      [] r.phase = "probe"
            \/ (r.verb = "create" /\ r.kind \in {"product", "product-type"}) -> NoId
      [] OTHER -> r.id

\* _axiosError logs and throws an Error whose message names the method, the
\* type, the id if there is one, and the message of the axios error.
_axiosError(error, id, type, method) ==
    [thrown |-> TRUE, method |-> method, type |-> type, id |-> id,
     message |-> error]

\* executeStrapiSend once axios has settled: the response is returned, a
\* rejection goes to _axiosError. (executeStrapiSend_Swallows: the faulty
\* variant whose catch block logs and falls through.)
executeStrapiSend_Swallows(r, outcome) ==
    [returned |-> TRUE,
     result |-> IF outcome = Ok THEN Ok ELSE "undefined",
     error |-> NoError]
executeStrapiSend(r, outcome) ==
    IF outcome = Ok
    THEN [returned |-> TRUE, result |-> Ok, error |-> NoError]
    ELSE [returned |-> FALSE, result |-> "none",
          error |-> _axiosError(outcome, SendId(r), SendType(r), Method(r))]

\* strapiSendDataLayer after executeStrapiSend: a 2xx answer gives the uniform
\* record; a rejection, or reading .data of undefined, is caught and gives
\* {status: 400}.
AfterSend(r, outcome) ==
    LET c == executeStrapiSend(r, outcome) IN
    DataLayerReturn([r EXCEPT !.status = outcome,
                              !.probe = IF r.phase \in {"probe", "me"} THEN outcome
                                        ELSE @,
                              !.sent = c],
                    IF c.returned /\ c.result = Ok THEN "ok" ELSE "s400")

SendRespond(t, outcome) ==
    LET r == task[t] IN
    /\ r.pc = "send"
    /\ Surfaces(r, outcome)
    /\ rateBudget' = IF outcome = TooMany THEN rateBudget - 1 ELSE rateBudget
    /\ task' = [task EXCEPT ![t] = AfterSend(Answer(r, outcome), outcome)]
    /\ UNCHANGED <<syncInProgress, strapi, now, ticksLeft, isHealthy, lastHealthCheckTime, strapiRetryDelay,
                   userTokens, tokSeq, redis, opsLeft, markersLeft>>

----------------------------------------------------------------------------
(* The remote products collection. Its code is not part of the service:    *)
(* what it is taken to do is what the service's test suite observes of it  *)
(* (a product created again is answered 302, an entry deleted is gone).    *)

\* The answer to a product that is created again.
Found == "found"

\* The collection's answer to the request held by r: the type is there; an
\* entry is created unless one has that medusa_id already; an entry is
\* updated or deleted if it is there.
StrapiAnswer(r) ==
    CASE r.phase = "probe" -> Ok
      [] Method(r) = "post" -> IF strapi[r.id] > 0 THEN Found ELSE Ok
      [] OTHER -> IF strapi[r.id] > 0 THEN Ok ELSE NotFound

\* The collection after it has answered outcome to the request held by r.
StrapiAfter(r, outcome) ==
    IF r.phase = "write" /\ outcome = Ok
    THEN CASE Method(r) = "post" -> [strapi EXCEPT ![r.id] = @ + 1]
           [] Method(r) = "delete" ->
                 [strapi EXCEPT ![r.id] = IF @ > 0 THEN @ - 1 ELSE 0]
           [] OTHER -> strapi
    ELSE strapi

\* The collection answers the request of task t, and the answer reaches
\* strapiSendDataLayer.
StrapiRespond(t) ==
    LET r == task[t]
        outcome == StrapiAnswer(r)
    IN
    /\ r.pc = "send"
    /\ strapi' = StrapiAfter(r, outcome)
    /\ task' = [task EXCEPT ![t] = AfterSend(Answer(r, outcome), outcome)]
    /\ UNCHANGED <<syncInProgress, now, ticksLeft, isHealthy, lastHealthCheckTime, strapiRetryDelay,
                   userTokens, tokSeq, redis, opsLeft, markersLeft, rateBudget>>

----------------------------------------------------------------------------
(* The default service user: deleteDefaultMedusaUser and                   *)
(* loginAsDefaultMedusaUser.                                                *)

UserOps == {"delete-user", "login-user"}

\* The remote service knows the user (it has not been deleted).
UserKnown(email) == strapi[email] > 0

\* delete this.userTokens[email]
\* (ForgetCredential_Keeps: the faulty variant that leaves the entry, which
\* C30 is checked to tell apart.)
ForgetCredential_Keeps(tokens, email) == tokens
ForgetCredential(tokens, email) == [tokens EXCEPT ![email] = NoCred]

\* loginAsDefaultMedusaUser: strapiLoginSendDatalayer from its beginning to
\* its first suspension; a cached credential is returned at once.
BeginLogin(r) ==
    LET r1 == [r EXCEPT !.phase = "login-only", !.call = @ + 1, !.cLogin = 0,
                        !.cSend = 0, !.status = "none"]
        cred == userTokens[r.email]
    IN  IF UsesCached(cred, strapiRetryDelay)
        THEN Return([r1 EXCEPT !.token = cred.token, !.creds = "cached"], "creds")
        ELSE WaitForHealth([r1 EXCEPT !.stage = "login", !.token = NoToken])

\* One of the two is called and runs up to its first suspension:
\* deleteMedusaUserFromStrapi begins with strapiSendDataLayer(get users/me).
StartUserOp(t, verb, e) ==
    /\ task[t].pc = "idle"
    /\ opsLeft > 0
    /\ opsLeft' = opsLeft - 1
    /\ LET r0 == [IdleTask EXCEPT !.verb = verb, !.email = e]
       IN  Commit(t, IF verb = "delete-user" THEN BeginDataLayer(r0, "me")
                     ELSE BeginLogin(r0), TRUE)
    /\ UNCHANGED <<syncInProgress, strapi, now, ticksLeft, isHealthy, lastHealthCheckTime, userTokens,
                   tokSeq, redis, markersLeft, rateBudget>>

\* The DELETE of the user settles: on a 2xx answer the credential is deleted
\* from the cache and the response returned; a rejection is thrown by
\* executeStrapiSend, caught and logged by deleteDefaultMedusaUser, which
\* resolves to undefined.
UserDeleteRespond(t, outcome) ==
    LET r == [Answer(task[t], outcome) EXCEPT
                 !.status = outcome, !.sent = executeStrapiSend(task[t], outcome)]
    IN
    /\ task[t].pc = "send"
    /\ task[t].phase = "userdel"
    /\ Surfaces(task[t], outcome)
    /\ rateBudget' = IF outcome = TooMany THEN rateBudget - 1 ELSE rateBudget
    /\ IF r.sent.returned
       THEN /\ userTokens' = ForgetCredential(userTokens, r.email)
            /\ strapi' = [strapi EXCEPT ![r.email] = 0]
            /\ task' = [task EXCEPT ![t] = Return(r, "ok")]
       ELSE /\ UNCHANGED <<userTokens, strapi>>
            /\ task' = [task EXCEPT ![t] =
                          Return(Log(r, "delete-user-failed"), "undef")]
    /\ UNCHANGED <<syncInProgress, now, ticksLeft, isHealthy, lastHealthCheckTime, strapiRetryDelay,
                   tokSeq, redis, opsLeft, markersLeft>>

----------------------------------------------------------------------------
(* The seed endpoint: one task per request. req.scope is taken to resolve  *)
(* and register in the one container all requests share.                   *)

\* The handler up to its first await: resolve("syncInProgress") throws when
\* nothing is registered, and the catch block registers true; a registered
\* true is answered "Sync in progress"; a registered false falls through.
\* Then the services are resolved and the first read is begun.
SeedRequest(t) ==
    LET r == [IdleTask EXCEPT !.verb = "seed"] IN
    /\ task[t].pc = "idle"
    /\ opsLeft > 0
    /\ opsLeft' = opsLeft - 1
    /\ IF syncInProgress # Unregistered /\ syncInProgress[1]
       THEN /\ task' = [task EXCEPT ![t] =
                          [r EXCEPT !.pc = "done", !.res = "inprogress"]]
            /\ UNCHANGED syncInProgress
       ELSE /\ task' = [task EXCEPT ![t] =
                          [r EXCEPT !.pc = "collect", !.nFetch = 1]]
            /\ syncInProgress' = IF syncInProgress = Unregistered
                                 THEN <<TRUE>> ELSE syncInProgress
    /\ UNCHANGED <<strapi, now, ticksLeft, isHealthy, lastHealthCheckTime,
                   strapiRetryDelay, userTokens, tokSeq, redis, markersLeft,
                   rateBudget>>

\* The reads of the domain services have all resolved ("data"): the export
\* is sent with status 200 and registerAdd("syncInProgress", asValue(false))
\* follows, taken to leave false registered. Or one of them has rejected
\* ("throw"): the outer catch sends status 400 and nothing else.
SeedRespond(t, outcome) ==
    /\ task[t].pc = "collect"
    /\ task' = [task EXCEPT ![t] =
                  [@ EXCEPT !.pc = "done",
                            !.res = IF outcome = "data" THEN "data" ELSE "error"]]
    /\ syncInProgress' = IF outcome = "data" THEN <<FALSE>> ELSE syncInProgress
    /\ UNCHANGED <<strapi, now, ticksLeft, isHealthy, lastHealthCheckTime,
                   strapiRetryDelay, userTokens, tokSeq, redis, opsLeft,
                   markersLeft, rateBudget>>

----------------------------------------------------------------------------
(* Bootstrap: the constructor's health check, startInterface,              *)
(* intializeServer and what they call, between two suspensions.            *)

\* Date.now() is an epoch time: the model's clock counts from a moment that
\* lies EpochSeconds after 1970.
EpochSeconds == 1700000000

\* executeLoginAsStrapiSuperAdmin: timeDiff and the test that returns the
\* stored profile and token instead of logging in.
AdminUsesCached(last, delay) ==
    LET timeDiff == IF last = <<>> THEN EpochSeconds + Seconds(now)
                    ELSE (now - last[1]) \div MsPerSec
    IN  delay # 0 /\ timeDiff < delay

\* startInterface has settled with how ("ok": the resync's response,
\* "undef": undefined, "throw"); the constructor's callback throws its
\* startup error unless the result has a status below 300.
\* (BootEnd_Silent: the faulty variant whose callback never throws.)
BootEnd_Silent(r, how) ==
    [r EXCEPT !.pc = "done", !.bstep = "end", !.res = how, !.req = "none"]
BootEnd(r, how) ==
    [r EXCEPT !.pc = "done", !.bstep = "end", !.res = how, !.req = "none",
              !.startupError = (how # "ok")]

\* loginAsDefaultMedusaUser has returned what ("creds" or "undef");
\* intializeServer reads .user of it and calls executeSync with the admin
\* token.
\* (AfterUserLogin_SyncAnyway: the faulty variant that does not look at what
\* the login gave.)
AfterUserLogin_SyncAnyway(r, what) ==
    WaitForHealth([r EXCEPT !.bstep = "sync", !.stage = "sync",
                            !.syncToken = r.adminToken])
AfterUserLogin(r, what) ==
    IF what = "creds"
    THEN WaitForHealth([Log(r, "user-step-ok") EXCEPT
                           !.bstep = "sync", !.stage = "sync",
                           !.syncToken = r.adminToken])
    ELSE BootEnd(Log(r, "user-step-undef"), "throw")

\* this.userTokens[email] of the instance the bootstrap runs on. The
\* constructor gives every instance a cache of its own, this.userTokens = {};
\* userTokens is the cache of the first instance, and on a clone nothing
\* runs but the bootstrap of its constructor, whose only lookup comes before
\* its only login.
Cache(r) == IF r.inst = "clone" THEN NoCred ELSE userTokens[r.email]

\* registerOrLoginDefaultMedusaUser after the registration:
\* loginAsDefaultMedusaUser, strapiLoginSendDatalayer.
UserLogin(r) ==
    LET r1 == [Log(r, "user-lookup") EXCEPT !.bstep = "userLogin"]
        cred == Cache(r)
    IN  IF UsesCached(cred, strapiRetryDelay)
        THEN AfterUserLogin(Log(r1, "user-cached"), "creds")
        ELSE WaitForHealth([r1 EXCEPT !.stage = "ulogin"])

\* strapiAdminSendDatalayer returns: the response's data and status ("ok"),
\* or {data: undefined, status: 400} ("s400").
AdminSendEnd(r, how) ==
    [r EXCEPT !.pc = "done", !.bstep = "end", !.res = how, !.req = "none"]

\* executeLoginAsStrapiSuperAdmin is entered in step r.bstep, and what the
\* caller of that step does once it has settled with how ("ok", "throw").
RECURSIVE AdminLogin(_)
RECURSIVE AfterAdminLogin(_, _)
AdminLogin(r) ==
    IF AdminUsesCached(r.lastAdmin, strapiRetryDelay)
    THEN AfterAdminLogin(Log(r, "admin-cached"), "ok")
    ELSE WaitForHealth([r EXCEPT !.lastAdmin = <<now>>, !.stage = "alogin"])

\* The first executeLoginAsStrapiSuperAdmin of the bootstrap, in the turn in
\* which the constructor's health check resolved true.
FirstAdminLogin(r) ==
    IF AdminUsesCached(r.lastAdmin, strapiRetryDelay)
    THEN AfterAdminLogin(Log(r, "admin-cached"), "ok")
    ELSE WaitForHealthFresh([r EXCEPT !.lastAdmin = <<now>>,
                                      !.stage = "alogin"])

AfterAdminLogin(r, how) ==
    CASE r.bstep = "adminReg" ->
           \* executeStrapiAdminSend of registerSuperAdminUserInStrapi
           IF how = "ok"
           THEN IssueBoot([r EXCEPT !.stage = "areg"])
           ELSE AdminLogin([Log(r, "admin-register-failed") EXCEPT
                               !.bstep = "adminLogin"])
      [] r.bstep = "adminLogin" ->
           \* registerOrLoginAdmin returns or rejects; intializeServer
           IF how = "throw"
           THEN BootEnd(Log(r, "admin-step-throw"), "throw")
           ELSE IF r.adminToken # NoToken
                THEN AdminLogin([Log(r, "admin-step-ok") EXCEPT
                                    !.bstep = "userReg"])
                ELSE BootEnd(Log(r, "admin-step-notoken"), "undef")
      [] r.bstep = "userReg" ->
           \* executeRegisterMedusaUser, registerDefaultMedusaUser's catch
           IF how = "ok"
           THEN WaitForHealth([r EXCEPT !.stage = "ureg"])
           ELSE UserLogin(Log(r, "user-register-failed"))
      [] r.bstep = "adminSend" ->
           \* executeStrapiAdminSend of strapiAdminSendDatalayer: the result
           \* of the login is an object, its token is stored and the request
           \* is made, with the Authorization header if the token is set;
           \* a login that throws is caught by strapiAdminSendDatalayer
           IF how = "ok"
           THEN IssueBoot([r EXCEPT !.stage = "asend"])
           ELSE AdminSendEnd(r, "s400")

\* The task after a step of the bootstrap, with strapiRetryDelay as
\* strapiLoginSendDatalayer leaves it if the step has called it.
BootCommit(t, r) ==
    LET looked == \E i \in (Len(task[t].blog) + 1)..Len(r.blog) :
                      r.blog[i] = "user-lookup"
    IN  /\ task' = [task EXCEPT ![t] = r]
        /\ strapiRetryDelay' =
              IF looked THEN DelayAfterLookup(Cache(r))
              ELSE strapiRetryDelay

\* constructor, up to its return: the task of the instance's own
\* executeStrapiHealthCheck, whose HEAD /_health is under way.
Constructed(e, which) ==
    [IdleTask EXCEPT !.verb = "bootstrap", !.email = e, !.pc = "bhead",
                     !.req = "bhead", !.bstep = "start", !.inst = which]

\* withTransaction(transactionManager) with a manager: new
\* UpdateStrapiService(...), whose constructor assigns the static isHealthy
\* false and calls executeStrapiHealthCheck, then startInterface if it
\* resolved true.
WithTransaction(t, e) ==
    /\ task[t].pc = "idle"
    /\ opsLeft > 0
    /\ opsLeft' = opsLeft - 1
    /\ isHealthy' = FALSE
    /\ task' = [task EXCEPT ![t] = Constructed(e, "clone")]
    /\ UNCHANGED <<syncInProgress, strapi, now, ticksLeft, lastHealthCheckTime, strapiRetryDelay,
                   userTokens, tokSeq, redis, markersLeft, rateBudget>>

\* constructor: executeStrapiHealthCheck resolved true; startInterface.
BootHeadOk(t) ==
    LET r == task[t] IN
    /\ r.pc = "bhead"
    /\ lastHealthCheckTime' = now
    /\ isHealthy' = TRUE
    /\ BootCommit(t, FirstAdminLogin([r EXCEPT !.answer = Ok,
                                               !.bstep = "adminReg"]))
    /\ UNCHANGED <<syncInProgress, strapi, now, ticksLeft, userTokens, tokSeq, redis, opsLeft,
                   markersLeft, rateBudget>>

\* constructor: executeStrapiHealthCheck resolved false; nothing is started.
BootHeadFail(t, outcome) ==
    LET r == task[t] IN
    /\ r.pc = "bhead"
    /\ outcome # Ok
    /\ Surfaces(r, outcome)
    /\ isHealthy' = FALSE
    /\ rateBudget' = IF outcome = TooMany THEN rateBudget - 1 ELSE rateBudget
    /\ task' = [task EXCEPT ![t] =
                  [Answer(r, outcome) EXCEPT !.pc = "done", !.bstep = "end",
                                             !.res = "notrun", !.req = "none"]]
    /\ UNCHANGED <<syncInProgress, strapi, now, ticksLeft, lastHealthCheckTime, strapiRetryDelay,
                   userTokens, tokSeq, redis, opsLeft, markersLeft>>

\* POST /admin/login resolved: the token and the profile are stored.
AdminLoginOk(t) ==
    LET r == task[t] IN
    /\ r.pc = "alogin"
    /\ tokSeq' = tokSeq + 1
    /\ BootCommit(t, AfterAdminLogin(
                         [Log(r, "admin-login-ok") EXCEPT
                             !.answer = Ok, !.adminToken = tokSeq + 1],
                         "ok"))
    /\ UNCHANGED <<syncInProgress, strapi, now, ticksLeft, isHealthy, lastHealthCheckTime, userTokens,
                   redis, opsLeft, markersLeft, rateBudget>>

\* POST /admin/login rejected: _axiosError throws.
AdminLoginFail(t, outcome) ==
    LET r == task[t] IN
    /\ r.pc = "alogin"
    /\ outcome # Ok
    /\ Surfaces(r, outcome)
    /\ rateBudget' = IF outcome = TooMany THEN rateBudget - 1 ELSE rateBudget
    /\ BootCommit(t, AfterAdminLogin(
                         Log(Answer(r, outcome), "admin-login-failed"), "throw"))
    /\ UNCHANGED <<syncInProgress, strapi, now, ticksLeft, isHealthy, lastHealthCheckTime, userTokens,
                   tokSeq, redis, opsLeft, markersLeft>>

\* POST /admin/register-admin has settled; registerOrLoginAdmin catches a
\* rejection and goes on to the login.
AdminRegisterRespond(t, outcome) ==
    LET r == task[t] IN
    /\ r.pc = "areg"
    /\ Surfaces(r, outcome)
    /\ rateBudget' = IF outcome = TooMany THEN rateBudget - 1 ELSE rateBudget
    /\ BootCommit(t, AdminLogin(
                         [Log(Answer(r, outcome),
                              IF outcome = Ok THEN "admin-register-ok"
                              ELSE "admin-register-failed")
                          EXCEPT !.bstep = "adminLogin"]))
    /\ UNCHANGED <<syncInProgress, strapi, now, ticksLeft, isHealthy, lastHealthCheckTime, userTokens,
                   tokSeq, redis, opsLeft, markersLeft>>

\* POST create-medusa-user has settled; registerDefaultMedusaUser catches a
\* rejection, and the login follows.
UserRegisterRespond(t, outcome) ==
    LET r == task[t] IN
    /\ r.pc = "ureg"
    /\ Surfaces(r, outcome)
    /\ rateBudget' = IF outcome = TooMany THEN rateBudget - 1 ELSE rateBudget
    /\ BootCommit(t, UserLogin(Log(Answer(r, outcome),
                                   IF outcome = Ok THEN "user-register-ok"
                                   ELSE "user-register-failed")))
    /\ UNCHANGED <<syncInProgress, strapi, now, ticksLeft, isHealthy, lastHealthCheckTime, userTokens,
                   tokSeq, redis, opsLeft, markersLeft>>

\* strapiAdminSendDatalayer(command) is called on the instance, after its
\* bootstrap has ended: executeStrapiAdminSend, which begins with
\* executeLoginAsStrapiSuperAdmin.
StartAdminSend(t) ==
    LET r == task[t] IN
    /\ r.verb = "bootstrap"
    /\ r.pc = "done"
    /\ opsLeft > 0
    /\ opsLeft' = opsLeft - 1
    /\ BootCommit(t, AdminLogin([r EXCEPT !.verb = "admin", !.res = "none",
                                          !.bstep = "adminSend"]))
    /\ UNCHANGED <<syncInProgress, strapi, now, ticksLeft, isHealthy, lastHealthCheckTime, userTokens,
                   tokSeq, redis, markersLeft, rateBudget>>

\* The request of executeStrapiAdminSend has settled: the response is
\* returned, or _axiosError throws and strapiAdminSendDatalayer catches.
AdminSendRespond(t, outcome) ==
    LET r == task[t] IN
    /\ r.pc = "asend"
    /\ Surfaces(r, outcome)
    /\ rateBudget' = IF outcome = TooMany THEN rateBudget - 1 ELSE rateBudget
    /\ BootCommit(t, AdminSendEnd(Answer(r, outcome),
                                  IF outcome = Ok THEN "ok" ELSE "s400"))
    /\ UNCHANGED <<syncInProgress, strapi, now, ticksLeft, isHealthy, lastHealthCheckTime, userTokens,
                   tokSeq, redis, opsLeft, markersLeft>>

\* POST /api/auth/local of the default identity resolved with a jwt.
UserLoginOk(t) ==
    LET r == task[t]
        cred == StoreCredential(Cache(r), tokSeq + 1, now)
    IN
    /\ r.pc = "ulogin"
    /\ tokSeq' = tokSeq + 1
    /\ userTokens' = IF r.inst = "clone" THEN userTokens
                     ELSE [userTokens EXCEPT ![r.email] = cred]
    /\ BootCommit(t, AfterUserLogin(
                         [Log(r, "user-login-ok") EXCEPT
                             !.answer = Ok, !.token = cred.token],
                         "creds"))
    /\ UNCHANGED <<syncInProgress, strapi, now, ticksLeft, isHealthy, lastHealthCheckTime, redis,
                   opsLeft, markersLeft, rateBudget>>

\* POST /api/auth/local of the default identity rejected:
\* loginAsDefaultMedusaUser catches the Error and returns undefined.
UserLoginFail(t, outcome) ==
    LET r == task[t] IN
    /\ r.pc = "ulogin"
    /\ outcome # Ok
    /\ Surfaces(r, outcome)
    /\ rateBudget' = IF outcome = TooMany THEN rateBudget - 1 ELSE rateBudget
    /\ BootCommit(t, AfterUserLogin(
                         Log(Answer(r, outcome), "user-login-failed"), "undef"))
    /\ UNCHANGED <<syncInProgress, strapi, now, ticksLeft, isHealthy, lastHealthCheckTime, userTokens,
                   tokSeq, redis, opsLeft, markersLeft>>

\* POST synchronise-medusa-tables has settled: intializeServer returns the
\* response, or executeSync rejects.
SyncRespond(t, outcome) ==
    LET r == task[t] IN
    /\ r.pc = "sync"
    /\ Surfaces(r, outcome)
    /\ rateBudget' = IF outcome = TooMany THEN rateBudget - 1 ELSE rateBudget
    /\ BootCommit(t, IF outcome = Ok
                     THEN BootEnd(Log(Answer(r, outcome), "sync-ok"), "ok")
                     ELSE BootEnd(Log(Answer(r, outcome), "sync-failed"), "throw"))
    /\ UNCHANGED <<syncInProgress, strapi, now, ticksLeft, isHealthy, lastHealthCheckTime, userTokens,
                   tokSeq, redis, opsLeft, markersLeft>>

----------------------------------------------------------------------------
(* Environment *)

\* The exploration ends with the last change event: nothing is left to
\* observe once every event has been handled.
Active ==
    /\ opsLeft > 0 \/ \E t \in Tasks : task[t].pc # "idle"
    /\ \A t \in Tasks : task[t].pc # "done"

Sleeping(r) == r.pc \in {"backoff", "hsleep"}

\* Time passes by d; a timer that is due fires before time goes on.
Tick(d) ==
    /\ Active
    /\ ticksLeft > 0
    /\ \A t \in Tasks : Sleeping(task[t]) => now + d <= task[t].wake
    /\ ticksLeft' = ticksLeft - 1
    /\ now' = now + d
    /\ UNCHANGED <<syncInProgress, strapi, isHealthy, lastHealthCheckTime, strapiRetryDelay, userTokens,
                   tokSeq, redis, task, opsLeft, markersLeft, rateBudget>>

\* Time passes until the next timer is due.
NextWake ==
    CHOOSE w \in {task[t].wake : t \in {u \in Tasks : Sleeping(task[u])}} :
        \A t \in Tasks : Sleeping(task[t]) => w <= task[t].wake

Elapse ==
    /\ ticksLeft > 0
    /\ \E t \in Tasks : Sleeping(task[t])
    /\ NextWake > now
    /\ ticksLeft' = ticksLeft - 1
    /\ now' = NextWake
    /\ UNCHANGED <<syncInProgress, strapi, isHealthy, lastHealthCheckTime, strapiRetryDelay, userTokens,
                   tokSeq, redis, task, opsLeft, markersLeft, rateBudget>>

\* addIgnore_(id, "strapi"): SET key 1 EX threshold.
AddIgnore(id) ==
    /\ Active
    /\ markersLeft > 0
    /\ markersLeft' = markersLeft - 1
    /\ redis' = [redis EXCEPT ![id] = now + IGNORE_THRESHOLD * MsPerSec]
    /\ UNCHANGED <<syncInProgress, strapi, now, ticksLeft, isHealthy, lastHealthCheckTime, strapiRetryDelay,
                   userTokens, tokSeq, task, opsLeft, rateBudget>>

----------------------------------------------------------------------------
\* The state after construction: nothing cached, isHealthy false. The
\* arguments are what the environment has in store: change events, clock
\* advances, ignore keys and 429 answers.
InitWith(ops, advances, keys, budget) ==
    /\ now = StartTime
    /\ ticksLeft = advances
    /\ isHealthy = FALSE
    /\ lastHealthCheckTime = 0
    /\ strapiRetryDelay = 0
    /\ userTokens = [e \in Emails |-> NoCred]
    /\ tokSeq = 0
    /\ redis = [i \in Ids |-> 0]
    /\ task = [t \in Tasks |-> IdleTask]
    /\ opsLeft = ops
    /\ markersLeft = keys
    /\ rateBudget = budget
    /\ strapi = NoEntries
    /\ syncInProgress = Unregistered

(* The sync engine: one change event at a time, every operation and every  *)
(* shape of event data, against a remote service that answers each request *)
(* at once and finally.                                                    *)

Init == InitWith(MaxOps, MaxTicks, MaxMarkers, 0)

Next ==
    \/ \E o \in Ops, id \in OpIds, e \in Emails :
          \E d \in DataChoices(o) : StartOp(1, o, id, d, e)
    \/ Complete(1)
    \/ IgnoreRespond(1)
    \/ \E oc \in {"entity", "null", "throw"} :
          RetrieveRespond(1, oc, Plain(task[1].id))
    \/ HeadOk(1)
    \/ LoginOk(1)
    \/ LoginNoJwt(1)
    \/ LoginFail(1, Unauthorized)
    \/ \E oc \in {Ok, Unauthorized, NotFound} : SendRespond(1, oc)
    \/ \E d \in EngineTicks : Tick(d)
    \/ \E id \in Ids : AddIgnore(id)

Spec == Init /\ [][Next]_vars

(* Two logical tasks against a remote service that may fail the health     *)
(* probe and rate-limit a request, with the clock steps that reach the     *)
(* health interval. Each task serves one change event; an event takes the  *)
(* first free task.                                                        *)

ConcEvents == {[verb |-> "delete", kind |-> "product"]}
NoData == [hasFields |-> FALSE, fields |-> {}, keys |-> {}]
ConcTicks == {PollSleep, HealthInterval}
ErrorOutcomes == {Unauthorized, NotFound, TooMany, ServerError, NetworkError}

FirstFree(t) == \A u \in Tasks : u < t => task[u].pc # "idle"

InitConc == InitWith(Cardinality(Tasks), MaxConcTicks, 0, MaxRateLimited)

NextConc ==
    \/ \E t \in Tasks, o \in ConcEvents, e \in Emails :
          FirstFree(t) /\ StartOp(t, o, "e1", NoData, e)
    \/ \E t \in Tasks : Complete(t)
    \/ \E t \in Tasks : IgnoreRespond(t)
    \/ \E t \in Tasks : HeadOk(t)
    \/ \E t \in Tasks : HeadFail(t, NetworkError)
    \/ \E t \in Tasks : HealthWake(t)
    \/ \E t \in Tasks : LoginOk(t)
    \/ \E t \in Tasks : SendRespond(t, Ok)
    \/ \E t \in Tasks, oc \in ErrorOutcomes :
          RetryRespond(t, oc, <<MaxRetryAfter>>, <<>>)
    \/ \E t \in Tasks : BackoffWake(t)
    \/ \E d \in ConcTicks : Tick(d)
    \/ Elapse

SpecConc == InitConc /\ [][NextConc]_vars

(* One task, one change event after the other, with the clock steps that   *)
(* reach the credential window: the default one, and the one a 429 answer  *)
(* leaves in strapiRetryDelay.                                             *)

CredTicks == {PollSleep, MsPerSec * MsPerSec, DefaultRetryDelay * MsPerSec}

InitCred == InitWith(MaxCredOps, MaxCredTicks, 0, MaxRateLimited)

NextCred ==
    \/ \E o \in ConcEvents, e \in Emails : StartOp(1, o, "e1", NoData, e)
    \/ Complete(1)
    \/ IgnoreRespond(1)
    \/ HeadOk(1)
    \/ LoginOk(1)
    \/ LoginNoJwt(1)
    \/ LoginFail(1, Unauthorized)
    \/ SendRespond(1, Ok)
    \/ \E oc \in ErrorOutcomes, ra \in RetryAfterChoices, rs \in ResetChoices :
          RetryRespond(1, oc, ra, rs)
    \/ BackoffWake(1)
    \/ \E d \in CredTicks : Tick(d)
    \/ Elapse

SpecCred == InitCred /\ [][NextCred]_vars

(* One change event against a remote service that has more 429 answers in  *)
(* store than the retry ceiling: once it has rate-limited a request it     *)
(* goes on doing so until axios-retry has used up its retries, and it may  *)
(* fail any request otherwise.                                             *)

InitRetry ==
    InitWith(1, Retries + MaxTicks, 0, Retries + MaxRateLimited)

\* The request held has not been rate-limited, or has no retry left.
Steady(t) == task[t].retryCount \in {0, Retries}

NextRetry ==
    \/ \E o \in ConcEvents, e \in Emails : StartOp(1, o, "e1", NoData, e)
    \/ Complete(1)
    \/ IgnoreRespond(1)
    \/ Steady(1) /\ HeadOk(1)
    \/ \E oc \in ErrorOutcomes : Steady(1) /\ HeadFail(1, oc)
    \/ HealthWake(1)
    \/ Steady(1) /\ LoginOk(1)
    \/ \E oc \in ErrorOutcomes : Steady(1) /\ LoginFail(1, oc)
    \/ \E oc \in {Ok} \cup ErrorOutcomes : Steady(1) /\ SendRespond(1, oc)
    \/ \E oc \in ErrorOutcomes : RetryRespond(1, oc, <<MaxRetryAfter>>, <<>>)
    \/ BackoffWake(1)
    \/ Elapse

SpecRetry == InitRetry /\ [][NextRetry]_vars

(* One change event against a remote service that only ever rate-limits:   *)
(* it relents after at most MaxRateLimited answers of 429 to a request, or *)
(* not before axios-retry has used up its retries, or when it has no 429   *)
(* left to give. The event loop runs whatever is ready: answers arrive,    *)
(* timers fire.                                                            *)

InitLive ==
    InitWith(1, Retries + MaxRateLimited, 0, Retries + MaxRateLimited)

Relents(t) ==
    \/ task[t].retryCount <= MaxRateLimited
    \/ task[t].retryCount = Retries
    \/ rateBudget = 0

NextLive ==
    \/ \E o \in ConcEvents, e \in Emails : StartOp(1, o, "e1", NoData, e)
    \/ Complete(1)
    \/ IgnoreRespond(1)
    \/ Relents(1) /\ HeadOk(1)
    \/ HeadFail(1, TooMany)
    \/ HealthWake(1)
    \/ Relents(1) /\ LoginOk(1)
    \/ LoginFail(1, TooMany)
    \/ Relents(1) /\ SendRespond(1, Ok)
    \/ SendRespond(1, TooMany)
    \/ RetryRespond(1, TooMany, <<MaxRetryAfter>>, <<>>)
    \/ BackoffWake(1)
    \/ Elapse

SpecLive == InitLive /\ [][NextLive]_vars /\ WF_vars(NextLive)

(* The bootstrap of a service that has just been constructed: its HEAD     *)
(* /_health is under way. The remote service may reject or rate-limit any  *)
(* request; no change event arrives meanwhile.                             *)

BootTicks == {PollSleep, HealthInterval + PollSleep}

InitBoot ==
    /\ now = StartTime
    /\ ticksLeft = MaxBootTicks
    /\ isHealthy = FALSE
    /\ lastHealthCheckTime = 0
    /\ strapiRetryDelay = 0
    /\ userTokens = [e \in Emails |-> NoCred]
    /\ tokSeq = 0
    /\ redis = [i \in Ids |-> 0]
    /\ \E e \in Emails :
          task = [t \in Tasks |->
                    IF t = 1 THEN Constructed(e, "this") ELSE IdleTask]
    /\ opsLeft = 0
    /\ markersLeft = 0
    /\ rateBudget = MaxRateLimited
    /\ strapi = NoEntries
    /\ syncInProgress = Unregistered

NextBoot ==
    \/ BootHeadOk(1)
    \/ BootHeadFail(1, NetworkError)
    \/ AdminLoginOk(1)
    \/ AdminLoginFail(1, Unauthorized)
    \/ \E oc \in {Ok, ServerError} : AdminRegisterRespond(1, oc)
    \/ \E oc \in {Ok, ServerError} : UserRegisterRespond(1, oc)
    \/ UserLoginOk(1)
    \/ UserLoginFail(1, Unauthorized)
    \/ \E oc \in {Ok, ServerError} : SyncRespond(1, oc)
    \/ HeadOk(1)
    \/ HeadFail(1, NetworkError)
    \/ HealthWake(1)
    \/ RetryRespond(1, TooMany, <<MaxRetryAfter>>, <<>>)
    \/ BackoffWake(1)
    \/ \E d \in BootTicks : Tick(d)

SpecBoot == InitBoot /\ [][NextBoot]_vars

(* One create of a variant whose entity the domain service holds in any of *)
(* the shapes of Entities, against a remote service that accepts all.      *)

IdsEvents == {[verb |-> "create", kind |-> "variant"]}

InitIds == InitWith(1, 0, 0, 0)

NextIds ==
    \/ \E o \in IdsEvents, id \in Ids, e \in Emails : StartOp(1, o, id, NoData, e)
    \/ Complete(1)
    \/ \E entity \in Entities(task[1].id) : RetrieveRespond(1, "entity", entity)
    \/ HeadOk(1)
    \/ LoginOk(1)
    \/ SendRespond(1, Ok)

SpecIds == InitIds /\ [][NextIds]_vars

(* Products created, updated and deleted by two tasks in any order and     *)
(* interleaving, against the remote products collection.                   *)

MirrorEvents == {[verb |-> v, kind |-> "product"] : v \in {"create", "update", "delete"}}
MirrorData(o) ==
    IF o.verb = "update"
    THEN {[hasFields |-> FALSE, fields |-> {}, keys |-> k] : k \in KeyChoices}
    ELSE {NoData}

InitMirror == InitWith(MaxMirrorOps, 0, 0, 0)

NextMirror ==
    \/ \E t \in Tasks, o \in MirrorEvents, e \in Emails :
          \E d \in MirrorData(o) : FirstFree(t) /\ StartOp(t, o, "e1", d, e)
    \/ \E t \in Tasks : Complete(t)
    \/ \E t \in Tasks : IgnoreRespond(t)
    \/ \E t \in Tasks : RetrieveRespond(t, "entity", Plain(task[t].id))
    \/ \E t \in Tasks : HeadOk(t)
    \/ \E t \in Tasks : LoginOk(t)
    \/ \E t \in Tasks : StrapiRespond(t)

SpecMirror == InitMirror /\ [][NextMirror]_vars

(* The life of a product, one operation after the other: it is created     *)
(* when it is not mirrored, updated in an allow-listed field and deleted   *)
(* when it is, against the remote products collection.                     *)

Mirrored(id) == strapi[id] > 0

LifeData(o) ==
    IF o.verb = "update"
    THEN {d \in DataChoices(o) : "title" \in d.fields \cup d.keys}
    ELSE {NoData}

InitLife == InitWith(MaxLifeOps, 0, 0, 0)

NextLife ==
    \/ \E o \in MirrorEvents, id \in Ids, e \in Emails :
          \E d \in LifeData(o) :
              /\ Mirrored(id) <=> o.verb # "create"
              /\ StartOp(1, o, id, d, e)
    \/ Complete(1)
    \/ IgnoreRespond(1)
    \/ RetrieveRespond(1, "entity", Plain(task[1].id))
    \/ HeadOk(1)
    \/ LoginOk(1)
    \/ StrapiRespond(1)

SpecLife == InitLife /\ [][NextLife]_vars

(* Two change events while the cached health state is false, whatever the  *)
(* time of the last check, against a remote service that is healthy and    *)
(* accepts every request. The event loop runs whatever is ready: answers   *)
(* arrive, timers fire.                                                    *)

HealEvents == {[verb |-> "update", kind |-> "metafield"]}

\* The polls of waitForHealth until a check is older than the interval.
HealPolls == HealthInterval \div PollSleep + 1

\* When the last check may have been.
LastChecks ==
    {0, StartTime - HealthInterval - PollSleep, StartTime - HealthInterval,
     StartTime - PollSleep, StartTime}

InitHeal ==
    /\ now = StartTime
    /\ ticksLeft = Cardinality(Tasks) * HealPolls
    /\ isHealthy = FALSE
    /\ lastHealthCheckTime \in LastChecks
    /\ strapiRetryDelay = 0
    /\ userTokens = [e \in Emails |-> NoCred]
    /\ tokSeq = 0
    /\ redis = [i \in Ids |-> 0]
    /\ task = [t \in Tasks |-> IdleTask]
    /\ opsLeft = Cardinality(Tasks)
    /\ markersLeft = 0
    /\ rateBudget = 0
    /\ strapi = NoEntries
    /\ syncInProgress = Unregistered

NextHeal ==
    \/ \E t \in Tasks, o \in HealEvents, e \in Emails :
          FirstFree(t) /\ StartOp(t, o, "e1", NoData, e)
    \/ \E t \in Tasks : Complete(t)
    \/ \E t \in Tasks : RetrieveRespond(t, "entity", Plain(task[t].id))
    \/ \E t \in Tasks : HeadOk(t)
    \/ \E t \in Tasks : HealthWake(t)
    \/ \E t \in Tasks : LoginOk(t)
    \/ \E t \in Tasks : SendRespond(t, Ok)
    \/ Elapse

SpecHeal == InitHeal /\ [][NextHeal]_vars /\ WF_vars(NextHeal)

(* The default user is deleted and logged in, one call after the other,    *)
(* with or without a cached credential, against a remote service that may  *)
(* reject any request and knows no user that has been deleted.             *)

UserTicks == {PollSleep, DefaultRetryDelay * MsPerSec}

InitUser ==
    /\ now = StartTime
    /\ ticksLeft = MaxUserTicks
    /\ isHealthy = FALSE
    /\ lastHealthCheckTime = 0
    /\ strapiRetryDelay = 0
    /\ \E n \in {0, 1} :
          /\ tokSeq = n
          /\ userTokens = [e \in Emails |->
                             IF n = 0 THEN NoCred
                             ELSE [token |-> n, time |-> StartTime]]
    /\ redis = [i \in Ids |-> 0]
    /\ task = [t \in Tasks |-> IdleTask]
    /\ opsLeft = MaxUserOps
    /\ markersLeft = 0
    /\ rateBudget = 0
    /\ strapi = NoEntries
    /\ syncInProgress = Unregistered

NextUser ==
    \/ \E verb \in UserOps, e \in Emails : StartUserOp(1, verb, e)
    \/ Complete(1)
    \/ HeadOk(1)
    \/ task[1].pc = "login" /\ UserKnown(task[1].email) /\ LoginOk(1)
    \/ LoginNoJwt(1)
    \/ LoginFail(1, Unauthorized)
    \/ \E oc \in {Ok, Unauthorized} : task[1].phase = "me" /\ SendRespond(1, oc)
    \/ \E oc \in {Ok, ServerError} : UserDeleteRespond(1, oc)
    \/ \E d \in UserTicks : Tick(d)

SpecUser == InitUser /\ [][NextUser]_vars

(* A service that has just been constructed, its HEAD /_health under way,  *)
(* and what callers do with it afterwards: change events handled on it and *)
(* withTransaction(manager) calls, each of which constructs a further      *)
(* instance. Task 1 is the first constructor's. The remote service may be  *)
(* unreachable for a constructor's health check and answers every other    *)
(* request; requests are answered and timers fire, and whether a caller    *)
(* ever calls is up to the caller.                                         *)

StartEvents == {[verb |-> "update", kind |-> "metafield"]}

InitStart ==
    /\ now = StartTime
    /\ ticksLeft = MaxStartTicks
    /\ isHealthy = FALSE
    /\ lastHealthCheckTime = 0
    /\ strapiRetryDelay = 0
    /\ userTokens = [e \in Emails |-> NoCred]
    /\ tokSeq = 0
    /\ redis = [i \in Ids |-> 0]
    /\ \E e \in Emails :
          task = [t \in Tasks |->
                    IF t = 1 THEN Constructed(e, "this") ELSE IdleTask]
    /\ opsLeft = MaxStartOps
    /\ markersLeft = 0
    /\ rateBudget = 0
    /\ strapi = NoEntries
    /\ syncInProgress = Unregistered

Callers ==
    \/ \E t \in Tasks, o \in StartEvents, e \in Emails :
          StartOp(t, o, "e1", NoData, e)
    \/ \E t \in Tasks, e \in Emails : WithTransaction(t, e)

Settles ==
    \/ \E t \in Tasks \ {1} : Complete(t)
    \/ \E t \in Tasks : RetrieveRespond(t, "entity", Plain(task[t].id))
    \/ \E t \in Tasks : BootHeadOk(t)
    \/ \E t \in Tasks : BootHeadFail(t, NetworkError)
    \/ \E t \in Tasks : AdminLoginOk(t)
    \/ \E t \in Tasks : AdminRegisterRespond(t, Ok)
    \/ \E t \in Tasks : UserRegisterRespond(t, Ok)
    \/ \E t \in Tasks : UserLoginOk(t)
    \/ \E t \in Tasks : SyncRespond(t, Ok)
    \/ \E t \in Tasks : HeadOk(t)
    \/ \E t \in Tasks : HealthWake(t)
    \/ \E t \in Tasks : LoginOk(t)
    \/ \E t \in Tasks : SendRespond(t, Ok)
    \/ Elapse

NextStart == Callers \/ Settles

SpecStart == InitStart /\ [][NextStart]_vars /\ WF_vars(Settles)

(* The bootstrap of a service that has just been constructed, and admin    *)
(* commands sent through it afterwards. The remote service may reject or   *)
(* rate-limit the admin login and may reject the registration and the      *)
(* command.                                                                *)

InitAdmin ==
    /\ now = StartTime
    /\ ticksLeft = MaxAdminTicks
    /\ isHealthy = FALSE
    /\ lastHealthCheckTime = 0
    /\ strapiRetryDelay = 0
    /\ userTokens = [e \in Emails |-> NoCred]
    /\ tokSeq = 0
    /\ redis = [i \in Ids |-> 0]
    /\ \E e \in Emails :
          task = [t \in Tasks |->
                    IF t = 1 THEN Constructed(e, "this") ELSE IdleTask]
    /\ opsLeft = MaxAdminOps
    /\ markersLeft = 0
    /\ rateBudget = MaxRateLimited
    /\ strapi = NoEntries
    /\ syncInProgress = Unregistered

NextAdmin ==
    \/ BootHeadOk(1)
    \/ AdminLoginOk(1)
    \/ AdminLoginFail(1, Unauthorized)
    \/ \E oc \in {Ok, ServerError} : AdminRegisterRespond(1, oc)
    \/ UserRegisterRespond(1, Ok)
    \/ UserLoginOk(1)
    \/ SyncRespond(1, Ok)
    \/ RetryRespond(1, TooMany, <<MaxRetryAfter>>, <<>>)
    \/ BackoffWake(1)
    \/ Elapse
    \/ StartAdminSend(1)
    \/ \E oc \in {Ok, ServerError} : AdminSendRespond(1, oc)

SpecAdmin == InitAdmin /\ [][NextAdmin]_vars

(* Requests to the seed endpoint, any number of them under way together;   *)
(* the domain services answer the reads of a request or fail one of them.  *)

InitSeed == InitWith(MaxSeedOps, 0, 0, 0)

NextSeed ==
    \/ \E t \in Tasks : SeedRequest(t)
    \/ \E t \in Tasks, oc \in {"data", "throw"} : SeedRespond(t, oc)
    \/ \E t \in Tasks : Complete(t)

SpecSeed == InitSeed /\ [][NextSeed]_vars

----------------------------------------------------------------------------
(* Properties of the sync engine *)

\* The updates that carry an allow-list of fields.
FilteredUpdate(r) ==
    r.verb = "update" /\ r.kind \in {"product", "region", "variant"}

\* The field set of an update event: its fields list and its payload keys.
FieldSet(r) == r.fields \cup r.keys

\* The event carries a fields list and nothing of it is in the allow-list.
Irrelevant(r) ==
    FilteredUpdate(r) /\ r.hasFields /\ FieldSet(r) \cap UpdateFields(r.kind) = {}

\* Requests the task has handed to the transport layer so far.
TransportCalls(r) == r.nHead + r.nLogin + r.nProbe + r.nWrite

\* C2 (as stated): when an entry request is rejected for authentication, the
\* call logs in afresh and sends the request once more, so a call that has
\* surfaced an authentication rejection has sent twice.
C2_RetryOnceAfterAuthFailure ==
    \A t \in Tasks :
        (task[t].status = Unauthorized /\ task[t].pc \notin {"send", "backoff"})
            => task[t].cSend = 2

\* C6 (as stated): an update whose field set is disjoint from the allow-list
\* issues no write and the transport layer receives no call at all.
C6_NoTransportCall ==
    \A t \in Tasks :
        Irrelevant(task[t]) => task[t].nWrite = 0 /\ TransportCalls(task[t]) = 0

\* C6 (amended): an update that carries a fields list and whose field set is
\* disjoint from the allow-list issues no write and no fetch, never reads the
\* echo marker, and answers {status: 400}; the variant update hands nothing
\* to the transport layer, the product and region updates only what the
\* type probe needs (health probe, login, one GET).
C6_FilteredUpdateWritesNothing ==
    \A t \in Tasks :
        Irrelevant(task[t]) =>
            /\ task[t].nWrite = 0
            /\ task[t].nFetch = 0
            /\ task[t].nIgnore = 0
            /\ task[t].call <= 1
            /\ task[t].nProbe <= 1
            /\ task[t].kind = "variant" => TransportCalls(task[t]) = 0
            /\ task[t].pc = "done" => task[t].res = "s400"

C6_Witness ==
    \E t \in Tasks :
        /\ Irrelevant(task[t])
        /\ task[t].kind = "product"
        /\ task[t].pc = "done"
        /\ task[t].res = "s400"
        /\ task[t].probe = Ok
        /\ task[t].nProbe = 1

\* C7: for a filtered update whose echo marker (written by addIgnore_ with
\* the TTL) is live when shouldIgnore_ reads it, nothing is fetched or
\* written and {status: 400} is answered; when the TTL has elapsed the
\* entity is fetched, and a fetched entity is followed by the write.
C7_EchoSuppression ==
    [][\A t \in Tasks :
          FilteredUpdate(task[t]) =>
            /\ (task[t].pc = "redis" /\ task'[t].pc # "redis") =>
                  IF now < redis[task[t].id]
                  THEN /\ task'[t].pc = "done"
                       /\ task'[t].res = "s400"
                       /\ task'[t].nFetch = 0
                       /\ task'[t].nWrite = 0
                  ELSE /\ task'[t].pc = "retrieve"
                       /\ task'[t].nFetch = 1
                       /\ task'[t].nWrite = 0
            /\ (task[t].pc = "retrieve" /\ task'[t].pc \notin {"retrieve", "done"}) =>
                  /\ task'[t].phase = "write"
                  /\ task'[t].call = task[t].call + 1]_vars

\* A marker was written, its TTL ran out, and the update went all the way.
C7_Witness ==
    \E t \in Tasks :
        /\ FilteredUpdate(task[t])
        /\ redis[task[t].id] # 0
        /\ now >= redis[task[t].id]
        /\ task[t].ign = "absent"
        /\ task[t].nFetch = 1
        /\ task[t].nWrite = 1
        /\ task[t].pc = "done"
        /\ task[t].res = "ok"

Guarded(r) ==
    \/ r.verb = "delete"
    \/ r.verb = "update" /\ r.kind \in {"product", "region", "variant"}

C9_MissingTypeIsSkip ==
    \A t \in Tasks :
        task[t].probe \notin {"none", Ok} =>
            /\ task[t].nFetch = 0
            /\ task[t].nWrite = 0
            /\ task[t].pc = "done" => task[t].res = "s400"

----------------------------------------------------------------------------
(* Properties of the credential cache and of the health monitor *)

\* The reuse window in force, and the age of a credential in whole seconds.
Window == IF strapiRetryDelay = 0 THEN DefaultRetryDelay ELSE strapiRetryDelay
Age(cred) == (now \div MsPerSec) - (cred.time \div MsPerSec)

\* The step begins a strapiSendDataLayer call of task t.
BeginsCall(t) == task'[t].call = task[t].call + 1

\* C1: a call that finds a cached credential whose age is below the reuse
\* window takes its token and sends no login request; a call that finds no
\* credential, or one whose age has reached the window, logs in; and a
\* login request is only ever sent by such a call.
C1_CredentialReuse ==
    [][\A t \in Tasks :
          /\ BeginsCall(t) =>
                LET cred == userTokens[task'[t].email] IN
                IF cred # NoCred /\ Age(cred) < Window
                THEN /\ task'[t].stage = "send"
                     /\ task'[t].token = cred.token
                     /\ task'[t].nLogin = task[t].nLogin
                     /\ task'[t].pc # "login"
                ELSE /\ task'[t].stage = "login"
                     /\ task'[t].token = NoToken
                     /\ task'[t].pc \in {"head", "hsleep", "login"}
          /\ task'[t].nLogin = task[t].nLogin + 1 =>
                /\ task'[t].stage = "login"
                /\ task'[t].cLogin = 1]_vars

\* A second login: the cached credential is exactly as old as the window.
C1_Witness ==
    \E t \in Tasks :
        /\ task[t].pc = "login"
        /\ tokSeq = 1
        /\ userTokens[task[t].email] # NoCred
        /\ Age(userTokens[task[t].email]) = Window

\* The step makes task t call checkStrapiHealth: at the start of a
\* strapiSendDataLayer call, after a login, after a polling sleep.
ChecksHealth(t) ==
    \/ BeginsCall(t)
    \/ task[t].pc = "hsleep" /\ task'[t].pc # "hsleep"
    \/ task[t].pc = "login" /\ task[t].stage = "login" /\ task'[t].stage = "send"

\* C3: checkStrapiHealth sends the HEAD probe exactly when more than the
\* interval has passed since lastHealthCheckTime; otherwise it sends
\* nothing and its answer is the cached isHealthy.
C3_HealthCache ==
    [][\A t \in Tasks :
          /\ ChecksHealth(t) =>
                IF now - lastHealthCheckTime > HealthInterval
                THEN /\ task'[t].pc = "head"
                     /\ task'[t].nHead = task[t].nHead + 1
                ELSE /\ task'[t].nHead = task[t].nHead
                     /\ IF isHealthy
                        THEN task'[t].pc \in {"login", "send"}
                        ELSE task'[t].pc = "hsleep"
          /\ task'[t].nHead = task[t].nHead + 1 =>
                /\ ChecksHealth(t)
                /\ now - lastHealthCheckTime > HealthInterval]_vars

\* A check made exactly one interval after the last probe used the cache.
C3_Witness ==
    \E t \in Tasks :
        /\ task[t].pc = "login"
        /\ task[t].call = 1
        /\ task[t].nHead = 0
        /\ lastHealthCheckTime > 0
        /\ now - lastHealthCheckTime = HealthInterval

\* Task t is inside waitForHealth.
InWaitForHealth(r) ==
    r.pc \in {"head", "hsleep"} \/ (r.pc = "backoff" /\ r.req = "head")

\* The step makes waitForHealth of task t return: the request behind it
\* (login or entry request) is sent.
Returns(t) ==
    task'[t].nLogin + task'[t].nProbe + task'[t].nWrite =
        task[t].nLogin + task[t].nProbe + task[t].nWrite + 1

\* The check of this step answered true: the probe was answered 2xx, or the
\* cache was fresh and said healthy.
CheckSaidTrue(t) ==
    \/ task[t].pc = "head" /\ task'[t].answer = Ok /\ isHealthy'
    \/ /\ task[t].pc # "head"
       /\ isHealthy
       /\ ~(now - lastHealthCheckTime > HealthInterval)

\* C4: waitForHealth returns only on a check that answered true; a task
\* inside it stays inside until then (no other exit), sleeps PollSleep after
\* a check that answered false and checks again when the sleep is over.
C4_WaitForHealth ==
    [][\A t \in Tasks :
          /\ Returns(t) => CheckSaidTrue(t)
          /\ InWaitForHealth(task[t]) =>
                \/ InWaitForHealth(task'[t])
                \/ Returns(t)
          /\ (task[t].pc # "hsleep" /\ task'[t].pc = "hsleep") =>
                task'[t].wake = now + PollSleep
          /\ (task[t].pc = "hsleep" /\ task'[t].pc # "hsleep") =>
                /\ now >= task[t].wake
                /\ ChecksHealth(t)]_vars

\* A task that saw an unhealthy service, polled, and then went on.
C4_Witness ==
    \E t \in Tasks :
        /\ task[t].pc = "login"
        /\ task[t].nHead >= 2
        /\ task[t].gate = "healthy"

\* C5 (as stated): no entry request leaves the process while the last
\* observed health state is unhealthy.
C5_NoEntryRequestWhileUnhealthy ==
    [][\A t \in Tasks :
          (task[t].pc # "send" /\ task'[t].pc = "send") => isHealthy']_vars

\* C5 (amended): the first transmission of every entry request follows, in
\* the same send call, a health check that answered true, so it leaves the
\* process while the last observed health state is healthy; retransmissions
\* by the transport layer are not covered.
C5_HealthGate ==
    [][\A t \in Tasks :
          (task'[t].nProbe + task'[t].nWrite
              = task[t].nProbe + task[t].nWrite + 1) =>
                /\ CheckSaidTrue(t)
                /\ isHealthy'
                /\ task'[t].pc = "send"
                /\ task'[t].stage = "send"
                /\ task'[t].retryCount = 0]_vars

\* An entry request sent after the task had to wait for health.
C5_Witness ==
    \E t \in Tasks :
        /\ task[t].pc = "send"
        /\ task[t].retryCount = 0
        /\ task[t].nHead >= 2
        /\ isHealthy

----------------------------------------------------------------------------
(* Properties of the transport layer *)

\* The step delivers the answer to the transmission task t has in flight.
Answered(t) == task[t].pc \in {"head", "login", "send"} /\ task'[t] # task[t]

\* C10: an answered transmission is retried (after a back-off, as the same
\* request, with the retry counted) exactly when the answer is a 429 and
\* fewer than Retries retries have been made; any other answer, and the 429
\* that follows the last retry, reaches the caller; nothing but the end of
\* a back-off retransmits.
C10_BoundedSelectiveRetry ==
    [][\A t \in Tasks :
          /\ Answered(t) =>
                /\ task'[t].pc = "backoff" <=>
                      (task'[t].answer = TooMany /\ task[t].retryCount < Retries)
                /\ task'[t].pc = "backoff" =>
                      /\ task'[t].retryCount = task[t].retryCount + 1
                      /\ task'[t].req = task[t].req
                /\ task'[t].retryCount <= Retries
          /\ (task[t].pc = "backoff" /\ task'[t].pc # "backoff") =>
                /\ task'[t].pc = task[t].req
                /\ task'[t].retryCount = task[t].retryCount
                /\ now >= task[t].wake]_vars

\* An entry request was answered 429 after its last retry: the failure has
\* reached strapiSendDataLayer.
C10_Witness ==
    \E t \in Tasks :
        /\ task[t].retryCount = Retries
        /\ task[t].answer = TooMany
        /\ task[t].status = TooMany
        /\ task[t].pc \notin {"head", "login", "send", "backoff"}

C12_NeverSurfaced ==
    \A t \in Tasks : task[t].gaveUp = <<>>

\* C12 (amended): a 429 reaches the caller only as the answer to the last
\* retry the ceiling allows; and a request in back-off is followed by the
\* end of its operation, which is a success unless a 429 did reach the
\* caller.
C12_RateLimitLiveness ==
    /\ [](\A t \in Tasks : task[t].gaveUp \in {<<>>, <<Retries>>})
    /\ \A t \in Tasks :
          (task[t].pc = "backoff") ~>
              (task[t].pc = "done"
                  /\ (task[t].res = "ok" \/ task[t].gaveUp = <<Retries>>))

\* A request was rate-limited, retried, and its operation succeeded.
C12_Witness ==
    \E t \in Tasks :
        /\ task[t].pc = "done"
        /\ task[t].res = "ok"
        /\ task[t].at > 0
        /\ task[t].gaveUp = <<>>

\* The step is a rate-limit signal: axios-retry computed and stored a delay.
RateLimitSignal ==
    \E t \in Tasks : task[t].pc # "backoff" /\ task'[t].pc = "backoff"

\* C13: the delay stored on a rate-limit signal is the reuse window of the
\* later staleness decisions, and after the signal no identity
\* re-authenticates more eagerly than before it: a cached credential that
\* was young enough to be reused before the signal is so after it.
C13_GlobalBackoff ==
    [][RateLimitSignal =>
          /\ Window' = IF strapiRetryDelay' = 0 THEN DefaultRetryDelay
                       ELSE strapiRetryDelay'
          /\ \A e \in Emails :
                (userTokens[e] # NoCred /\ Age(userTokens[e]) < Window)
                    => Age(userTokens[e]) < Window']_vars

\* The step gives executeStrapiSend of task t the final answer of axios.
SendSettles(t) ==
    task[t].pc = "send" /\ task'[t].pc \notin {"send", "backoff"}

\* C14: when axios rejects a request of executeStrapiSend for a reason that
\* is neither an auth failure nor a 429, executeStrapiSend does not return:
\* it throws an error that carries the method, the resource type, the id and
\* the underlying message of that request.
C14_RejectionIsThrown ==
    [][\A t \in Tasks :
          (SendSettles(t) /\ task'[t].answer \notin {Ok, Unauthorized, TooMany}) =>
              /\ ~task'[t].sent.returned
              /\ task'[t].sent.error =
                    [thrown |-> TRUE, method |-> Method(task[t]),
                     type |-> SendType(task[t]), id |-> SendId(task[t]),
                     message |-> task'[t].answer]]_vars

\* An update with an id was answered 404 and executeStrapiSend threw.
C14_Witness ==
    \E t \in Tasks :
        /\ task[t].answer = NotFound
        /\ task[t].sent.error.thrown
        /\ task[t].sent.error.method = "put"
        /\ task[t].sent.error.id = task[t].id
        /\ task[t].sent.error.id # NoId

\* Task t awaits an answer of the remote service.
AwaitsRemote(t) == task[t].pc \in {"head", "login", "send"}

\* C15: no answer of the remote service makes an entity-sync operation
\* throw: an operation that ends on such an answer returns the uniform
\* record if the answer was a success and {status: 400} otherwise.
C15_RemoteFailureIsStatus400 ==
    [][\A t \in Tasks :
          (AwaitsRemote(t) /\ task'[t].pc = "done") =>
              /\ task'[t].res \in {"ok", "s400"}
              /\ task'[t].answer # Ok => task'[t].res = "s400"]_vars

\* C16: when the domain service's retrieve fails, the operation that fetched
\* ends by throwing, whatever the kind: the failure is not turned into
\* {status: 400} or any other result.
C16_FetchErrorPropagates ==
    [][\A t \in Tasks :
          (task[t].pc = "retrieve" /\ task'[t].fetched = "throw") =>
              (task'[t].pc = "done" /\ task'[t].res = "throw")]_vars

\* No node of the tree n has a key "id".
RECURSIVE NoIdKey(_)
NoIdKey(n) ==
    /\ "id" \notin DOMAIN n
    /\ \A k \in DOMAIN n : n[k].prim \/ NoIdKey(n[k].o)

\* Every node of orig that has an id has, at the same place in new, a
\* medusa_id of that value.
RECURSIVE Renamed(_, _)
Renamed(orig, new) ==
    /\ "id" \in DOMAIN orig =>
          "medusa_id" \in DOMAIN new /\ new["medusa_id"] = orig["id"]
    /\ \A k \in DOMAIN orig :
          ~orig[k].prim =>
              /\ k \in DOMAIN new
              /\ ~new[k].prim
              /\ Renamed(orig[k].o, new[k].o)

----------------------------------------------------------------------------
(* Properties of the bootstrap *)

Has(b, event) == \E i \in 1..Len(b) : b[i] = event

RegisterEnds == {"admin-register-ok", "admin-register-failed",
                 "user-register-ok", "user-register-failed"}

\* C18: the resync request is issued only after the admin register-or-login
\* has given a privileged token and, after that, the default identity's
\* register-or-login has succeeded; and it carries that privileged token.
C18_BootstrapOrdering ==
    \A t \in Tasks :
        LET b == task[t].blog IN
        /\ \A i \in 1..Len(b) :
              b[i] = "sync" =>
                  \E j \in 1..i, k \in 1..i :
                      j < k /\ b[j] = "admin-step-ok" /\ b[k] = "user-step-ok"
        /\ Has(b, "sync") =>
              task[t].syncToken = task[t].adminToken
                  /\ task[t].adminToken # NoToken

\* The bootstrap has completed, though both registrations were rejected.
C18_Witness ==
    \E t \in Tasks :
        /\ task[t].pc = "done"
        /\ task[t].res = "ok"
        /\ Has(task[t].blog, "admin-register-failed")
        /\ Has(task[t].blog, "user-register-failed")
        /\ Has(task[t].blog, "sync-ok")

\* C19: when the login of the admin register-or-login fails, or leaves no
\* token, the default identity's step and the resync are not attempted and
\* the startup error is thrown; when the default identity's login fails, no
\* resync request is issued and the bootstrap ends with the startup error,
\* not with success.
C19_FailureStopsDependents ==
    \A t \in Tasks :
        LET b == task[t].blog IN
        /\ \A i \in 1..Len(b) :
              /\ (b[i] = "admin-login-failed" /\ i >= 3 /\ b[i - 1] = "alogin"
                     /\ b[i - 2] \in RegisterEnds) =>
                    (Len(b) > i /\ b[i + 1] = "admin-step-throw")
              /\ b[i] = "user-login-failed" =>
                    (Len(b) > i /\ b[i + 1] = "user-step-undef")
        /\ (Has(b, "admin-step-throw") \/ Has(b, "admin-step-notoken")) =>
              /\ \A e \in {"ureg", "user-lookup", "ulogin", "sync"} : ~Has(b, e)
              /\ task[t].pc = "done"
              /\ task[t].startupError
        /\ Has(b, "user-step-undef") =>
              /\ ~Has(b, "sync")
              /\ task[t].pc = "done"
              /\ task[t].res # "ok"
              /\ task[t].startupError

\* The default identity's login was rejected after the admin step had
\* succeeded.
C19_Witness ==
    \E t \in Tasks :
        /\ Has(task[t].blog, "admin-step-ok")
        /\ Has(task[t].blog, "user-login-failed")
        /\ task[t].pc = "done"

\* C20: in both register-or-login steps a login request follows the
\* registration, whether that was accepted or rejected, and the step ends
\* as that login did.
C20_RegisterOrLogin ==
    \A t \in Tasks :
        LET b == task[t].blog IN
        \A i \in 1..Len(b) :
            /\ b[i] \in {"admin-step-ok", "admin-step-notoken", "admin-step-throw"} =>
                  /\ i >= 4
                  /\ b[i - 3] \in {"admin-register-ok", "admin-register-failed"}
                  /\ b[i - 2] = "alogin"
                  /\ b[i - 1] = IF b[i] = "admin-step-ok" THEN "admin-login-ok"
                                ELSE "admin-login-failed"
            /\ b[i] \in {"user-step-ok", "user-step-undef"} =>
                  /\ i >= 5
                  /\ b[i - 4] \in {"user-register-ok", "user-register-failed"}
                  /\ b[i - 3] = "user-lookup"
                  /\ b[i - 2] = "ulogin"
                  /\ b[i - 1] = IF b[i] = "user-step-ok" THEN "user-login-ok"
                                ELSE "user-login-failed"

\* The step begins an attempt to log the admin in: the time of the last
\* attempt is set.
AdminAttempt(t) == task'[t].lastAdmin # task[t].lastAdmin

\* C21: the time of the last attempted admin login is recorded whether the
\* attempt succeeds or not, and no admin login is attempted before the
\* reuse window, the one of the user credentials, has passed since the
\* last attempt.
C21_AdminLoginBackoff ==
    [][\A t \in Tasks :
          AdminAttempt(t) =>
              /\ task'[t].lastAdmin = <<now>>
              /\ task[t].lastAdmin # <<>> =>
                    (now - task[t].lastAdmin[1]) \div MsPerSec >= Window]_vars

----------------------------------------------------------------------------
(* Properties of the remote mirror *)

\* The collection's entries with medusa_id i change in this step.
Created(i) == strapi'[i] > strapi[i]
Removed(i) == strapi'[i] < strapi[i]

\* A task whose write request is answered in this step, and the verb of it.
Writes(t, verb) ==
    /\ task[t].pc = "send"
    /\ task[t].phase = "write"
    /\ task[t].verb = verb
    /\ task'[t] # task[t]

C23_SecondCreateIsConflict ==
    \A t \in Tasks :
        /\ task[t].pc = "done"
        /\ task[t].verb = "create"
        /\ task[t].phase = "write"
        /\ task[t].answer = Found
        => /\ task[t].res = Found
           /\ strapi[task[t].id] = 1

----------------------------------------------------------------------------
(* Properties of concurrent tasks *)

\* Task t puts an entry request on the wire in this step, for the first time
\* or again after a backoff.
Transmits(t) == task'[t].pc = "send" /\ task[t].pc # "send"

\* C24: every entry request that is sent carries the token of the most
\* recent successful login of its identity: none is sent with a token after
\* a more recent login of that identity has completed.
C24_MostRecentCredential ==
    [][\A t \in Tasks :
          Transmits(t) =>
              task'[t].token = userTokens'[task'[t].email].token]_vars

\* Task t issues a liveness probe in this step.
Probes(t) == task'[t].nHead = task[t].nHead + 1

\* C25: no two liveness probes are issued less than one interval apart,
\* whichever tasks issue them.
C25_OneProbePerInterval ==
    [][\A t, u \in Tasks :
          Probes(t) /\ task[u].probedAt # <<>> =>
              now - task[u].probedAt[1] >= HealthInterval]_vars

----------------------------------------------------------------------------
(* Properties of coarse update events *)

\* An update event without a fields list.
Coarse(r) == r.verb = "update" /\ ~r.hasFields

\* The operation has come to its field-relevance guard: it has no probe, or
\* getType has resolved.
GuardReached(r) == ProbeType(r.verb, r.kind) = "none" \/ r.probe # "none"

\* The operation has gone past the guard, to the echo check or the fetch.
Passed(r) == r.nIgnore > 0 \/ r.nFetch > 0

\* C27 as stated: for every kind, an update event without a fields list
\* passes the field-relevance guard whatever its payload, and goes on to the
\* echo check and the fetch.
C27_CoarseUpdatePasses ==
    \A t \in Tasks :
        Coarse(task[t]) /\ GuardReached(task[t]) /\ task[t].pc = "done"
            => Passed(task[t])

\* C27: an update event without a fields list passes the guard
\* unconditionally for a variant (and for a metafield, which has no guard);
\* for a product and a region it passes exactly when one of the payload's
\* own keys is in the allow-list, so a payload of the id alone does not.
C27_CoarseUpdateGuard ==
    \A t \in Tasks :
        Coarse(task[t]) /\ GuardReached(task[t]) /\ task[t].pc = "done"
            => (Passed(task[t]) <=>
                   \/ task[t].kind \in {"variant", "metafield"}
                   \/ task[t].keys \cap UpdateFields(task[t].kind) # {})

\* A variant update whose payload is the id alone has gone on to the echo
\* check.
C27_Witness ==
    \E t \in Tasks :
        /\ Coarse(task[t])
        /\ task[t].kind = "variant"
        /\ task[t].keys = {}
        /\ task[t].pc = "done"
        /\ task[t].nIgnore = 1

----------------------------------------------------------------------------
(* Properties of the login *)

\* The login request of task t settles in this step.
LoginSettles(t) == task[t].pc = "login" /\ task'[t].pc \notin {"login", "backoff"}

\* C28: a login that yields a token stores the token and the time under the
\* identity's email and returns that credential; a login that yields none
\* throws to its caller, it does not return an empty result, and the cache
\* is what it was.
C28_LoginOutcome ==
    [][\A t \in Tasks :
          LoginSettles(t) =>
              LET email == task[t].email IN
              IF tokSeq' # tokSeq
              THEN /\ userTokens'[email] = [token |-> tokSeq', time |-> now]
                   /\ task'[t].token = tokSeq'
                   /\ task'[t].creds = "returned"
              ELSE /\ task'[t].creds = "thrown"
                   /\ userTokens' = userTokens]_vars

----------------------------------------------------------------------------
(* Properties of the health recovery *)

\* C29: a task that waits in waitForHealth while the cached health state is
\* false, whatever the time of the last check, against a remote service
\* that is healthy from then on, gets out of waitForHealth, and its sync
\* operation ends with a success status.
C29_HealthRecovery ==
    \A t \in Tasks :
        (InWaitForHealth(task[t]) /\ ~isHealthy) ~>
            (task[t].pc = "done" /\ task[t].res = "ok")

\* A task has slept in waitForHealth on a fresh false health state, and its
\* operation has ended with a success status after a probe of its own.
C29_Witness ==
    \E t \in Tasks :
        /\ task[t].pc = "done"
        /\ task[t].res = "ok"
        /\ task[t].gate = "healthy"
        /\ task[t].nHead > 0
        /\ now >= StartTime + HealthInterval
        /\ isHealthy

----------------------------------------------------------------------------
(* Properties of the default service user *)

\* deleteDefaultMedusaUser of task t returns in this step.
DeleteUserEnds(t) ==
    task[t].verb = "delete-user" /\ task[t].pc # "done" /\ task'[t].pc = "done"

\* C30: when deleteDefaultMedusaUser returns after the remote deletion has
\* succeeded, the cache holds no credential of the default identity; when
\* the deletion has failed, the error is logged, nothing is thrown and the
\* cache is what it was. A loginAsDefaultMedusaUser that follows a deletion
\* returns undefined, not the credential that was cached.
C30_DeleteDefaultUser ==
    /\ [][\A t \in Tasks :
             DeleteUserEnds(t) =>
                 IF task[t].phase = "userdel" /\ task'[t].answer = Ok
                 THEN /\ userTokens'[task[t].email] = NoCred
                      /\ task'[t].res = "ok"
                 ELSE /\ userTokens' = userTokens
                      /\ task'[t].res = "undef"
                      /\ Has(task'[t].blog, "delete-user-failed")]_vars
    /\ [](\A t \in Tasks :
             /\ task[t].verb = "login-user"
             /\ task[t].pc = "done"
             /\ ~UserKnown(task[t].email)
             => /\ task[t].res = "undef"
                /\ task[t].creds # "cached"
                /\ userTokens[task[t].email] = NoCred)

\* A credential was cached, the user has been deleted, and the login that
\* followed asked the remote service and returned undefined.
C30_Witness ==
    \E t \in Tasks :
        /\ task[t].verb = "login-user"
        /\ task[t].pc = "done"
        /\ task[t].res = "undef"
        /\ task[t].nLogin = 1
        /\ ~UserKnown(task[t].email)
        /\ tokSeq > 0

----------------------------------------------------------------------------
(* Properties of the type-existence guard *)

\* C31: the write request of every create, update and delete goes to the
\* resource type whose existence the operation has probed.
C31_GuardTargetsWrittenType ==
    \A t \in Tasks :
        /\ task[t].pc = "send"
        /\ task[t].phase = "write"
        /\ task[t].verb \in {"create", "update", "delete"}
        => ProbeType(task[t].verb, task[t].kind) = SendType(task[t])

----------------------------------------------------------------------------
(* Properties of concurrent logins *)

\* C32: the credential cache changes only when a login of that identity
\* resolves with a token, and it then holds that login's token and that
\* login's time, nothing of the entry that was there: after concurrent
\* logins it holds the credential of the one that resolved last.
C32_LastWriterWins ==
    [][\A e \in Emails :
          userTokens'[e] # userTokens[e] =>
              \E t \in Tasks :
                  /\ LoginSettles(t)
                  /\ task[t].email = e
                  /\ task'[t].token = tokSeq'
                  /\ userTokens'[e] = [token |-> tokSeq', time |-> now]]_vars

\* Two logins of one identity were under way together, both resolved, at
\* different times, and the cache holds the credential of the second.
C32_Witness ==
    \E t, u \in Tasks, e \in Emails :
        /\ task[t].email = e /\ task[u].email = e
        /\ task[t].token = 1 /\ task[u].token = 2
        /\ task[t].creds = "returned" /\ task[u].creds = "returned"
        /\ userTokens[e].token = 2
        /\ userTokens[e].time > StartTime

----------------------------------------------------------------------------
(* Properties of the health state *)

ProbeSettles(t) ==
    task[t].pc = "head" /\ task'[t].pc \notin {"head", "backoff"}

\* C33: when a liveness probe ends, answered or failed, isHealthy is its
\* outcome (true exactly for a 2xx answer) and lastHealthCheckTime is the
\* time it ended.
C33_ProbeUpdatesHealthState ==
    [][\A t \in Tasks :
          ProbeSettles(t) =>
              /\ isHealthy' = (task'[t].answer = Ok)
              /\ lastHealthCheckTime' = now]_vars

----------------------------------------------------------------------------
(* Properties of construction *)

\* The bootstrap sequence of task t's constructor has begun: a request of it
\* has been transmitted.
Bootstrapped(t) == task[t].verb = "bootstrap" /\ task[t].blog # <<>>

\* C34: the bootstrap sequence is begun by one constructor at most; once the
\* first instance has begun it, nothing begins it again.
C34_BootstrapOnce ==
    Cardinality({t \in Tasks : Bootstrapped(t)}) <= 1

\* C35: isHealthy and lastHealthCheckTime change only in the step in which
\* a liveness probe ends; a step that constructs an instance leaves them.
C35_HealthStateFrame ==
    [][isHealthy' # isHealthy \/ lastHealthCheckTime' # lastHealthCheckTime =>
          \E t \in Tasks :
              \/ ProbeSettles(t)
              \/ task[t].pc = "bhead" /\ task'[t].pc # "bhead"]_vars

\* The first constructor's health check has failed, so it has started
\* nothing, and a later probe has found the remote service healthy.
HealthyAfterFailedStart == task[1].res = "notrun" /\ isHealthy

\* C38: if the first constructor's health check fails and the remote
\* service is found healthy later, the bootstrap sequence is begun at some
\* time, by whichever instance.
C38_StartupLiveness ==
    <>HealthyAfterFailedStart => <>(\E t \in Tasks : Bootstrapped(t))

----------------------------------------------------------------------------
(* Properties of the admin commands *)

\* C36: while a request of executeStrapiAdminSend is under way, the admin
\* token it was made with is a token that an admin login has returned.
C36_AdminSendAuthenticated ==
    \A t \in Tasks :
        task[t].pc \in {"areg", "asend"} => task[t].adminToken # NoToken

----------------------------------------------------------------------------
(* Properties of the units of the reuse window *)

\* C37: the reuse window (180e3 by default, or the delay the 429 handler has
\* computed) is a time in ms, as the retry handler returns it to axios-retry:
\* a call that finds a credential at least that many ms old logs in again.
C37_WindowUnits ==
    [][\A t \in Tasks :
          BeginsCall(t) =>
              LET cred == userTokens[task'[t].email] IN
              (cred # NoCred /\ now - cred.time >= Window) =>
                  task'[t].stage = "login"]_vars

----------------------------------------------------------------------------
(* Properties of the seed endpoint *)

Collecting(t) == task[t].verb = "seed" /\ task[t].pc = "collect"

\* C39: at most one seed request is collecting data at any time.
C39_SeedMutualExclusion ==
    Cardinality({t \in Tasks : Collecting(t)}) <= 1

\* C40: when no seed request is collecting data, the in-progress flag is
\* not set: a request that arrives is served.
C40_SeedRelease ==
    (\A t \in Tasks : ~Collecting(t)) => syncInProgress # <<TRUE>>

====
